---- MODULE Spec2Model ----
(***************************************************************************)
(* A model of the runtime core in src/prolog/machine/system_calls.rs:      *)
(* the cycle-bounded list/string walker (Brent's algorithm) behind         *)
(* '$skip_max_list'/4 and the attributed-variable ledger built-ins.        *)
(*                                                                         *)
(* Heap addresses are 0-based as in the source; the heap is a function     *)
(* from 0..h-1 to cells.  A string is the sequence of the UTF-8 widths of  *)
(* its characters, so byte offsets and character counts stay distinct.     *)
(***************************************************************************)
EXTENDS Integers, Sequences, FiniteSets, TLC

\* ------------------------------------------------------------------ bounds
MaxCells == 3
MaxBudget == 4
MaxStrChars == 2
\* isize::MAX, at a width small enough to enumerate.
IsizeMax == 7

\* UTF-8 widths of the characters the strings are made of.
CharWidths == {1, 2}

\* The unbounded walk is cut off after StepCap steps (the source has no bound).
StepCap == 3 * MaxCells + 3

\* ------------------------------------------------------------------ addresses
HeapCell(h) == [tag |-> "HeapCell", h |-> h]
AttrVar(h) == [tag |-> "AttrVar", h |-> h]
Lis(h) == [tag |-> "Lis", h |-> h]
PStrLocation(h, n) == [tag |-> "PStrLocation", h |-> h, n |-> n]
ConEmptyList == [tag |-> "Con", k |-> "EmptyList"]
ConAtom(name) == [tag |-> "Con", k |-> "Atom", v |-> name]
ConInteger(v) == [tag |-> "Con", k |-> "Integer", v |-> v]
ConUsize(v) == [tag |-> "Con", k |-> "Usize", v |-> v]
ConString(n, s) == [tag |-> "Con", k |-> "String", n |-> n, s |-> s]

\* HeapCellValue::PartialString: an immutable text block; its tail is the next cell.
PartialString(s) == [tag |-> "PartialString", s |-> s]

IsRef(a) == a.tag \in {"HeapCell", "AttrVar", "StackCell"}
IsString(a) == a.tag = "Con" /\ a.k = "String"
IsInteger(a) == a.tag = "Con" /\ a.k = "Integer"

\* ------------------------------------------------------------------ strings
RECURSIVE ByteLen(_)
\* str::len(): the length in bytes.
ByteLen(s) == IF s = <<>> THEN 0 ELSE Head(s) + ByteLen(Tail(s))

RECURSIVE CharAt(_, _)
\* s[n ..].chars().next(): the width of the character that starts at byte
\* offset n, 0 at the end of the string, -1 where the slice panics (n beyond the
\* end or inside a character).
CharAt(s, n) ==
    IF n = 0 THEN (IF s = <<>> THEN 0 ELSE Head(s))
    ELSE IF s = <<>> \/ n < Head(s) THEN -1
    ELSE CharAt(Tail(s), n - Head(s))

RECURSIVE SliceFrom(_, _)
\* &s[n ..] for a valid offset n: the characters from byte offset n on.
SliceFrom(s, n) ==
    IF n = 0 \/ s = <<>> THEN s ELSE SliceFrom(Tail(s), n - Head(s))

\* ------------------------------------------------------------------ store
HLen(hp) == Cardinality(DOMAIN hp)

\* HeapCellValue::as_addr(h)
AsAddr(hp, h) ==
    IF hp[h].tag = "PartialString" THEN PStrLocation(h, 0)
    ELSE IF hp[h].tag = "NamedStr" THEN [tag |-> "Str", h |-> h]
    ELSE hp[h]

\* MachineState::store: one lookup.  A partial-string location at the end of
\* its block resolves to the block's tail cell.
Store(hp, a) ==
    IF a.tag \in {"HeapCell", "AttrVar"} THEN AsAddr(hp, a.h)
    ELSE IF a.tag = "PStrLocation"
    THEN (IF hp[a.h].tag = "PartialString" /\ CharAt(hp[a.h].s, a.n) = 0
          THEN HeapCell(a.h + 1) ELSE a)
    ELSE a

RECURSIVE Deref(_, _)
\* MachineState::deref: follow references until an unbound variable or a value.
Deref(hp, a) ==
    LET v == Store(hp, a)
    IN IF IsRef(v) /\ v # a THEN Deref(hp, v) ELSE a

StoreDeref(hp, a) == Store(hp, Deref(hp, a))

\* ------------------------------------------------------------------ results
None == [tag |-> "None"]
NotList == [tag |-> "NotList"]
EmptyList == [tag |-> "EmptyList"]
ProperList(n) == [tag |-> "ProperList", steps |-> n]
PartialList(n, r) == [tag |-> "PartialList", steps |-> n, r |-> r]
PStrLocationResult(n, h, o) == [tag |-> "PStrLocation", steps |-> n, h |-> h, n |-> o]
CompleteString(n, s) == [tag |-> "CompleteString", steps |-> n, s |-> s]
UntouchedString(n, s) == [tag |-> "UntouchedString", n |-> n, s |-> s]
UntouchedList(l) == [tag |-> "UntouchedList", l |-> l]
\* unreachable!() or a slice out of bounds: the process aborts.
Panic == [tag |-> "Panic"]

\* ------------------------------------------------------------------ Brent
BrentAlgStateNew(hare) ==
    [hare |-> hare, tortoise |-> hare, power |-> 2, steps |-> 0]

ConcludeOrMoveTortoiseQuad(st) ==
    IF st.tortoise = st.hare THEN [st |-> st, res |-> NotList]
    ELSE IF st.steps = st.power
    THEN [st |-> [st EXCEPT !.tortoise = st.hare, !.power = 4 * st.power],
          res |-> None]
    ELSE [st |-> st, res |-> None]

ConcludeOrMoveTortoiseStill(st) ==
    IF st.tortoise = st.hare THEN [st |-> st, res |-> NotList]
    ELSE IF st.steps = st.power
    THEN [st |-> [st EXCEPT !.power = 2 * st.power], res |-> None]
    ELSE [st |-> st, res |-> None]

ConcludeOrMoveTortoise(st) ==
    IF st.tortoise = st.hare THEN [st |-> st, res |-> NotList]
    ELSE IF st.steps = st.power
    THEN [st |-> [st EXCEPT !.tortoise = st.hare, !.power = 2 * st.power],
          res |-> None]
    ELSE [st |-> st, res |-> None]

BrentStepNoCount(st, hare) ==
    ConcludeOrMoveTortoise([st EXCEPT !.hare = hare])

BrentStep(st, hare) ==
    ConcludeOrMoveTortoise([st EXCEPT !.hare = hare, !.steps = st.steps + 1])

ToResult(st) ==
    IF IsRef(st.hare) THEN PartialList(st.steps, st.hare)
    ELSE IF st.hare.tag = "PStrLocation"
    THEN PStrLocationResult(st.steps, st.hare.h, st.hare.n)
    ELSE IF st.hare = ConEmptyList THEN ProperList(st.steps)
    ELSE NotList

\* One step of the walk: the new state and the result, None while it goes on.
BrentsAlgStep(hp, dqAtom, st) ==
    LET a == StoreDeref(hp, st.hare)
    IN IF a = ConEmptyList THEN [st |-> st, res |-> ProperList(st.steps)]
       ELSE IF IsRef(a) THEN [st |-> st, res |-> PartialList(st.steps, a)]
       ELSE IF IsString(a) /\ ~dqAtom
       THEN (IF a.s # <<>>
             THEN BrentStep(st, ConString(a.n + Head(a.s), a.s))
             ELSE [st |-> st, res |-> CompleteString(ByteLen(a.s), a.s)])
       ELSE IF a.tag = "PStrLocation"
       THEN (IF hp[a.h].tag = "PartialString" /\ CharAt(hp[a.h].s, a.n) > 0
             THEN BrentStep(st, PStrLocation(a.h, a.n + CharAt(hp[a.h].s, a.n)))
             ELSE [st |-> st, res |-> Panic])
       ELSE IF a.tag = "Lis" THEN BrentStep(st, HeapCell(a.h + 1))
       ELSE [st |-> st, res |-> NotList]

\* The match that opens detect_cycles_with_max: the hare to start from, or the
\* result returned at once.
DetectCyclesWithMaxEntry(hp, dqAtom, max, addr) ==
    LET a == StoreDeref(hp, addr)
    IN IF a.tag \in {"Lis", "PStrLocation"}
       THEN (IF max > 0 THEN [hare |-> a, res |-> None]
             ELSE [hare |-> a, res |-> UntouchedList(a.h)])
       ELSE IF a = ConEmptyList THEN [hare |-> a, res |-> EmptyList]
       ELSE IF IsString(a) /\ ~dqAtom
       THEN [hare |-> a,
             res |->
               IF a.n = 0
               THEN (IF max > 0
                     THEN (IF max >= ByteLen(a.s)
                           THEN CompleteString(ByteLen(a.s), a.s)
                           ELSE UntouchedString(max, a.s))
                     ELSE UntouchedString(0, a.s))
               ELSE (IF max > 0
                     THEN (IF max >= ByteLen(a.s) - a.n
                           THEN (IF CharAt(a.s, a.n) < 0 THEN Panic
                                 ELSE CompleteString(ByteLen(SliceFrom(a.s, a.n)),
                                                     SliceFrom(a.s, a.n)))
                           ELSE UntouchedString(max, a.s))
                     ELSE UntouchedString(a.n, a.s))]
       ELSE [hare |-> a, res |-> NotList]

\* The match that opens detect_cycles.
DetectCyclesEntry(hp, dqAtom, addr) ==
    LET a == StoreDeref(hp, addr)
    IN IF a.tag \in {"Lis", "PStrLocation"} THEN [hare |-> a, res |-> None]
       ELSE IF a = ConEmptyList THEN [hare |-> a, res |-> EmptyList]
       ELSE IF IsString(a) /\ ~dqAtom
       THEN [hare |-> a,
             res |->
               IF a.n = 0 THEN CompleteString(ByteLen(a.s), a.s)
               ELSE IF CharAt(a.s, a.n) < 0 THEN Panic
               ELSE CompleteString(ByteLen(SliceFrom(a.s, a.n)), SliceFrom(a.s, a.n))]
       ELSE [hare |-> a, res |-> NotList]

RECURSIVE WithMaxLoop(_, _, _, _)
\* The loop of detect_cycles_with_max, run to its result.
WithMaxLoop(hp, dqAtom, max, st) ==
    IF st.steps = max THEN ToResult(st)
    ELSE LET r == BrentsAlgStep(hp, dqAtom, st)
         IN IF r.res # None THEN r.res ELSE WithMaxLoop(hp, dqAtom, max, r.st)

\* detect_cycles_with_max as a function of the store.
DetectCyclesWithMax(hp, dqAtom, max, addr) ==
    LET e == DetectCyclesWithMaxEntry(hp, dqAtom, max, addr)
    IN IF e.res # None THEN e.res
       ELSE WithMaxLoop(hp, dqAtom, max, BrentAlgStateNew(e.hare))

\* ------------------------------------------------------------------ unification
\* MachineState::bind: bind a variable; of two variables the younger (higher
\* address) is bound to the older, a plain variable to an attributed one.
Bind(hp, d1, d2) ==
    IF IsRef(d1) /\ IsRef(d2)
    THEN (IF d1.tag = "AttrVar" /\ d2.tag # "AttrVar" THEN [hp EXCEPT ![d2.h] = d1]
          ELSE IF d2.tag = "AttrVar" /\ d1.tag # "AttrVar" THEN [hp EXCEPT ![d1.h] = d2]
          ELSE IF d1.h < d2.h THEN [hp EXCEPT ![d2.h] = d1]
          ELSE [hp EXCEPT ![d1.h] = d2])
    ELSE IF IsRef(d1) THEN [hp EXCEPT ![d1.h] = d2]
    ELSE [hp EXCEPT ![d2.h] = d1]

RECURSIVE UnifyLoop(_, _, _)
\* MachineState::unify: the push-down list of pairs still to be unified.
UnifyLoop(hp, pdl, fuel) ==
    IF pdl = <<>> \/ fuel = 0 THEN [heap |-> hp, fail |-> FALSE]
    ELSE LET d1 == StoreDeref(hp, Head(pdl)[1])
             d2 == StoreDeref(hp, Head(pdl)[2])
         IN IF d1 = d2 THEN UnifyLoop(hp, Tail(pdl), fuel - 1)
            ELSE IF IsRef(d1) \/ IsRef(d2)
            THEN UnifyLoop(Bind(hp, d1, d2), Tail(pdl), fuel - 1)
            ELSE IF d1.tag = "Lis" /\ d2.tag = "Lis"
            THEN UnifyLoop(hp,
                           <<<<HeapCell(d1.h), HeapCell(d2.h)>>,
                             <<HeapCell(d1.h + 1), HeapCell(d2.h + 1)>>>>
                             \o Tail(pdl),
                           fuel - 1)
            ELSE [heap |-> hp, fail |-> TRUE]

Unify(hp, a1, a2) == UnifyLoop(hp, <<<<a1, a2>>>>, 4 * HLen(hp))

\* ------------------------------------------------------------------ $skip_max_list
\* Integer::to_isize is Some: the arbitrary-precision integer fits an isize.
FitsIsize(v) == v >= -IsizeMax - 1 /\ v <= IsizeMax

\* Unifications one after the other, each under if !self.fail: the first
\* that fails is the last attempted. tried lists the store and the flag
\* after each attempt.
RECURSIVE UnifyInTurnFrom(_, _, _)
UnifyInTurnFrom(hp, pairs, tried) ==
    IF pairs = <<>> THEN [heap |-> hp, fail |-> FALSE, tried |-> tried]
    ELSE LET u == Unify(hp, Head(pairs)[1], Head(pairs)[2])
         IN IF u.fail THEN [heap |-> u.heap, fail |-> TRUE, tried |-> Append(tried, u)]
            ELSE UnifyInTurnFrom(u.heap, Tail(pairs), Append(tried, u))

UnifyInTurn(hp, pairs) == UnifyInTurnFrom(hp, pairs, <<>>)

\* Unifications one after the other with no test of the flag between them.
\* fail is the flag if a failure stays set, last the flag if each unification
\* sets it anew.
RECURSIVE UnifyEachFrom(_, _, _, _)
UnifyEachFrom(hp, pairs, tried, failed) ==
    IF pairs = <<>>
    THEN [heap |-> hp, fail |-> failed, tried |-> tried,
          last |-> IF tried = <<>> THEN FALSE ELSE tried[Len(tried)].fail]
    ELSE LET u == Unify(hp, Head(pairs)[1], Head(pairs)[2])
         IN UnifyEachFrom(u.heap, Tail(pairs), Append(tried, u), failed \/ u.fail)

UnifyEach(hp, pairs) == UnifyEachFrom(hp, pairs, <<>>, FALSE)

FinalizeSkipMaxList(hp, rg, n, addr) ==
    UnifyInTurn(hp, <<<<ConInteger(n), rg[1]>>, <<addr, rg[4]>>>>)

\* The match on the search result in skip_max_list: the count and the
\* remainder handed to finalize_skip_max_list.
ResultCount(res) ==
    IF res.tag \in {"PStrLocation", "CompleteString", "PartialList", "ProperList"}
    THEN res.steps
    ELSE 0

ResultAddr(res, xs0) ==
    IF res.tag = "PStrLocation" THEN PStrLocation(res.h, res.n)
    ELSE IF res.tag = "CompleteString" THEN ConEmptyList
    ELSE IF res.tag = "UntouchedString" THEN ConString(res.n, res.s)
    ELSE IF res.tag = "UntouchedList" THEN Lis(res.l)
    ELSE IF res.tag = "EmptyList" THEN ConEmptyList
    ELSE IF res.tag = "PartialList" THEN res.r
    ELSE IF res.tag = "ProperList" THEN ConEmptyList
    ELSE xs0

SkipMaxListFinish(hp, rg, res) ==
    FinalizeSkipMaxList(hp, rg, ResultCount(res), ResultAddr(res, rg[3]))

\* ------------------------------------------------------------------ state
VARIABLES
    heap,            \* MachineState::heap
    dq_atom,         \* flags.double_quotes.is_atom()
    regs,            \* the argument registers temp_v!(1..4)
    pc,              \* where the built-in stands
    brent_st,        \* the walker's BrentAlgState
    max_steps,       \* the budget of the walk in progress, -1 for none
    search_result,   \* the CycleSearchResult of the last walk
    fail,            \* MachineState::fail
    error,           \* the error the built-in returned, "none" if none
    attr_var_queue,  \* attr_var_init.attr_var_queue
    attribute_goals, \* attr_var_init.attribute_goals
    delim,           \* history: the delimiter last read, -1 before any
    enqueued,        \* history: the attributed variables enqueued since
    last_call,       \* history: the built-in executed last
    b_reg,           \* MachineState::b, the latest choice point
    block,           \* MachineState::block, the current cut barrier
    stack,           \* prelude.b of the choice-point frame at each address
    cut_policy,      \* "Default" or "SCC", the kind of the cut policy
    cont_pts,        \* the SCC cut policy's stack of (addr, b_cutoff, prev_b)
    e_reg,           \* MachineState::e, the current environment frame
    p_reg,           \* MachineState::p, as a local code pointer
    cp_reg,          \* MachineState::cp, the continuation pointer
    and_frames,      \* the environment frames: prelude.e, prelude.cp and cells
    global_variables, \* indices.global_variables: the ball and offset of each key
    ball,            \* MachineState::ball: boundary and stub
    lifted_heap,     \* MachineState::lifted_heap
    stored,          \* history: the shape of the terms snapshotted, as stored
    trail,           \* MachineState::trail: the cells to reset on backtracking
    saved,           \* history: the heap and the trail length at the choice point
    current_input_stream,  \* the stream current input reads from
    current_output_stream, \* the stream current output writes to
    call_policy,     \* the call policy: its kind, inference count and limits
    code_dir,        \* indices.code_dir: the predicates, in key order
    op_dir,          \* indices.op_dir: the operators
    listed           \* history: the directory an enumeration began on, the references returned

walkVars == <<dq_atom, pc, brent_st, max_steps, search_result, error>>
ledgerVars == <<attr_var_queue, attribute_goals, delim, enqueued, last_call>>
ctrlVars == <<b_reg, block, stack, cut_policy, cont_pts>>
contVars == <<e_reg, p_reg, cp_reg, and_frames>>
snapVars == <<global_variables, ball, lifted_heap, stored>>
dbVars == <<code_dir, op_dir, listed>>
sysVars == <<trail, saved, current_input_stream, current_output_stream, call_policy,
             dbVars>>
extVars == <<ctrlVars, contVars, snapVars, sysVars>>
vars == <<heap, regs, fail, walkVars, ledgerVars, extVars>>

\* Highest address of a choice-point frame.
MaxOr == 3

\* The machine parts a built-in of another part never touches, at rest.
CtrlIdle ==
    /\ b_reg = 0
    /\ block = 0
    /\ stack = [i \in 0..MaxOr |-> 0]
    /\ cut_policy = "Default"
    /\ cont_pts = <<>>

ContIdle ==
    /\ e_reg = 0
    /\ p_reg = 0
    /\ cp_reg = 0
    /\ and_frames = <<>>

\* The keys of global variables.
Keys == {"k1", "k2"}

\* No entry under a key; the ball after Ball::new and Ball::reset.
NoEntry == [tag |-> "NoEntry"]
BallNew == [boundary |-> 0, stub |-> <<>>]

SnapIdle ==
    /\ global_variables = [k \in Keys |-> NoEntry]
    /\ ball = BallNew
    /\ lifted_heap = <<>>
    /\ stored = <<>>

\* A stream: its name and the directions it is open in.
Stream(name, input, output) ==
    [tag |-> "Stream", name |-> name, input |-> input, output |-> output]
Stdin == Stream("stdin", TRUE, FALSE)
Stdout == Stream("stdout", FALSE, TRUE)

\* DefaultCallPolicy.
DefaultCallPolicy == [kind |-> "Default", count |-> 0, limits |-> <<>>]

NotSaved == [tag |-> "NotSaved"]

\* No enumeration has begun; no predicate and no operator matters.
NotListed == [begun |-> FALSE, from |-> <<>>, refs |-> <<>>]

DbIdle ==
    /\ code_dir = <<>>
    /\ op_dir = {}
    /\ listed = NotListed

SysIdle ==
    /\ trail = <<>>
    /\ saved = NotSaved
    /\ current_input_stream = Stdin
    /\ current_output_stream = Stdout
    /\ call_policy = DefaultCallPolicy
    /\ DbIdle

ExtIdle == CtrlIdle /\ ContIdle /\ SnapIdle /\ SysIdle

\* ------------------------------------------------------------------ heaps
Root == 0
CellHead(j) == 2 * j - 1
CellTail(j) == 2 * j
PStrBlock == 2 * MaxCells + 2
PStrTail == 2 * MaxCells + 3
NVar == 2 * MaxCells + 4
XsVar == 2 * MaxCells + 5
HeapSize == 2 * MaxCells + 6

Strings == UNION {[1..m -> CharWidths] : m \in 0..MaxStrChars}
Boundaries(s) == {ByteLen(SubSeq(s, 1, i)) : i \in 0..Len(s)}

\* How a list of n cells may end.
Ends(n) ==
    {[kind |-> k] : k \in {"nil", "var", "attrvar", "atom"}}
    \cup {[kind |-> "back", k |-> k] : k \in 1..n}
    \cup {[kind |-> "str", s |-> s, n |-> o] : s \in Strings, o \in 0..(2 * MaxStrChars)}
    \cup {[kind |-> "pstr", s |-> s, n |-> o, tail |-> t] :
            s \in Strings \ {<<>>}, o \in 0..(2 * MaxStrChars), t \in {"nil", "var"}}

EndOk(e) == e.kind \in {"str", "pstr"} => e.n \in Boundaries(e.s)

\* The value of the cell at i that ends the list.
EndValue(n, e, i) ==
    IF e.kind = "nil" THEN ConEmptyList
    ELSE IF e.kind = "var" THEN HeapCell(i)
    ELSE IF e.kind = "attrvar" THEN AttrVar(i)
    ELSE IF e.kind = "atom" THEN ConAtom("foo")
    ELSE IF e.kind = "back" THEN Lis(CellHead(n - e.k + 1))
    ELSE IF e.kind = "str" THEN ConString(e.n, e.s)
    ELSE PStrLocation(PStrBlock, e.n)

\* A heap holding, from the root cell, a list of n cells that ends as e says.
MkHeap(n, e) ==
    [i \in 0..(HeapSize - 1) |->
        IF i = 2 * n THEN EndValue(n, e, i)
        ELSE IF i = Root THEN Lis(CellHead(1))
        ELSE IF i < 2 * n
        THEN (IF i % 2 = 1 THEN ConInteger((i + 1) \div 2) ELSE Lis(i + 1))
        ELSE IF i = 2 * n + 1 /\ e.kind = "attrvar" THEN HeapCell(i)
        ELSE IF i = PStrBlock /\ e.kind = "pstr" THEN PartialString(e.s)
        ELSE IF i = PStrTail /\ e.kind = "pstr"
        THEN (IF e.tail = "nil" THEN ConEmptyList ELSE HeapCell(i))
        ELSE IF i \in {NVar, XsVar} THEN HeapCell(i)
        ELSE ConAtom("unused")]

\* The attributed variables the maximum can be: the one that ends the list.
MaxAttrVars(n, e) == IF e.kind = "attrvar" THEN {HeapCell(2 * n)} ELSE {}

Init ==
    /\ \E n \in 0..MaxCells : \E e \in {x \in Ends(n) : EndOk(x)} :
         /\ heap = MkHeap(n, e)
         /\ dq_atom \in (IF e.kind = "str" THEN BOOLEAN ELSE {FALSE})
         /\ \E r1 \in {HeapCell(NVar), ConInteger(0), ConInteger(1)} :
            \E r2 \in {ConInteger(m) : m \in (-2)..MaxBudget}
                        \cup {ConInteger(IsizeMax + 1)}
                        \cup {HeapCell(NVar), ConAtom("foo")}
                        \cup MaxAttrVars(n, e) :
              regs = <<r1, r2, HeapCell(Root), HeapCell(XsVar)>>
    /\ ExtIdle
    /\ pc = "call"
    /\ brent_st = BrentAlgStateNew(ConEmptyList)
    /\ max_steps = -1
    /\ search_result = None
    /\ fail = FALSE
    /\ error = "none"
    /\ attr_var_queue = <<>>
    /\ attribute_goals = <<>>
    /\ delim = -1
    /\ enqueued = <<>>
    /\ last_call = [op |-> "none"]

\* The walk ended with res: skip_max_list binds its outputs and returns.
Finish(res) ==
    /\ search_result' = res
    /\ IF res = Panic
       THEN /\ pc' = "panic"
            /\ UNCHANGED <<heap, fail>>
       ELSE LET u == SkipMaxListFinish(heap, regs, res)
            IN /\ heap' = u.heap
               /\ fail' = u.fail
               /\ pc' = "done"
    /\ UNCHANGED <<dq_atom, regs, error>>

\* skip_max_list up to the first turn of the walker's loop.
SkipMaxList ==
    /\ pc = "call"
    /\ UNCHANGED extVars
    /\ UNCHANGED ledgerVars
    /\ LET m == StoreDeref(heap, regs[2])
           n == StoreDeref(heap, regs[1])
       IN IF IsInteger(m)
          THEN IF FitsIsize(m.v) /\ m.v >= -1
               THEN IF IsInteger(n) /\ n.v = 0
                    THEN LET u == Unify(heap, regs[3], regs[4])
                         IN /\ heap' = u.heap
                            /\ fail' = u.fail
                            /\ pc' = "done"
                            /\ UNCHANGED <<dq_atom, regs, brent_st, max_steps,
                                           search_result, error>>
                    ELSE LET e == IF m.v = -1
                                  THEN DetectCyclesEntry(heap, dq_atom, regs[3])
                                  ELSE DetectCyclesWithMaxEntry(heap, dq_atom, m.v, regs[3])
                         IN /\ max_steps' = m.v
                            /\ brent_st' = BrentAlgStateNew(e.hare)
                            /\ IF e.res # None
                               THEN Finish(e.res)
                               ELSE /\ pc' = IF m.v = -1 THEN "detect_cycles"
                                             ELSE "detect_cycles_with_max"
                                    /\ UNCHANGED <<heap, dq_atom, regs, search_result,
                                                   fail, error>>
               ELSE /\ fail' = TRUE
                    /\ pc' = "done"
                    /\ UNCHANGED <<heap, dq_atom, regs, brent_st, max_steps,
                                   search_result, error>>
          ELSE /\ error' = IF m.tag \in {"HeapCell", "StackCell"}
                           THEN "instantiation_error" ELSE "type_error"
               /\ pc' = "done"
               /\ UNCHANGED <<heap, dq_atom, regs, brent_st, max_steps,
                              search_result, fail>>

\* One turn of the loop of detect_cycles.
DetectCyclesLoop ==
    /\ pc = "detect_cycles"
    /\ UNCHANGED extVars
    /\ UNCHANGED ledgerVars
    /\ brent_st.steps < StepCap
    /\ LET r == BrentsAlgStep(heap, dq_atom, brent_st)
       IN /\ brent_st' = r.st
          /\ UNCHANGED max_steps
          /\ IF r.res # None
             THEN Finish(r.res)
             ELSE UNCHANGED <<heap, dq_atom, regs, pc, search_result, fail, error>>

\* One turn of the loop of detect_cycles_with_max.
DetectCyclesWithMaxLoop ==
    /\ pc = "detect_cycles_with_max"
    /\ UNCHANGED extVars
    /\ UNCHANGED ledgerVars
    /\ UNCHANGED max_steps
    /\ IF brent_st.steps = max_steps
       THEN /\ Finish(ToResult(brent_st))
            /\ UNCHANGED brent_st
       ELSE LET r == BrentsAlgStep(heap, dq_atom, brent_st)
            IN /\ brent_st' = r.st
               /\ IF r.res # None
                  THEN Finish(r.res)
                  ELSE UNCHANGED <<heap, dq_atom, regs, pc, search_result, fail, error>>

Next == SkipMaxList \/ DetectCyclesLoop \/ DetectCyclesWithMaxLoop

Spec == Init /\ [][Next]_vars

\* ------------------------------------------------------------------ ledger
MaxQueue == 2
MaxGoals == 3

HeapPush(hp, v) ==
    [i \in 0..HLen(hp) |-> IF i < HLen(hp) THEN hp[i] ELSE v]

RECURSIVE HeapToListFrom(_, _)
HeapToListFrom(hp, items) ==
    IF items = <<>> THEN HeapPush(hp, ConEmptyList)
    ELSE HeapToListFrom(HeapPush(HeapPush(hp, Lis(HLen(hp) + 1)), Head(items)),
                        Tail(items))

\* Heap::to_list: the items as a list on top of the heap; the list starts at
\* the old top.
HeapToList(hp, items) == [heap |-> HeapToListFrom(hp, items), at |-> HLen(hp)]

RECURSIVE ListToSeq(_, _)
\* The cells a list on the heap holds, in order.
ListToSeq(hp, a) ==
    LET d == StoreDeref(hp, a)
    IN IF d.tag = "Lis" THEN <<hp[d.h]>> \o ListToSeq(hp, HeapCell(d.h + 1))
       ELSE <<>>

\* The standard order of terms: variables by address, then integers by value,
\* then atoms by name.
AtomRank == [a |-> 1, b |-> 2, foo |-> 3, unused |-> 4]
TermKey(hp, a) ==
    LET d == StoreDeref(hp, a)
    IN IF IsRef(d) THEN <<0, d.h>>
       ELSE IF IsInteger(d) THEN <<1, d.v>>
       ELSE IF d.tag = "Con" /\ d.k = "Atom" THEN <<3, AtomRank[d.v]>>
       ELSE <<4, 0>>

\* MachineState::compare_term_test: -1, 0 or 1.
CompareTermTest(hp, a1, a2) ==
    LET k1 == TermKey(hp, a1)
        k2 == TermKey(hp, a2)
    IN IF k1 = k2 THEN 0
       ELSE IF k1[1] < k2[1] \/ (k1[1] = k2[1] /\ k1[2] < k2[2]) THEN -1
       ELSE 1

RECURSIVE TermDedup(_, _)
\* MachineState::term_dedup: of neighbours that compare equal keep the first.
TermDedup(hp, list) ==
    IF Len(list) <= 1 THEN list
    ELSE IF CompareTermTest(hp, list[1], list[2]) = 0
    THEN TermDedup(hp, <<list[1]>> \o SubSeq(list, 3, Len(list)))
    ELSE <<list[1]>> \o TermDedup(hp, Tail(list))

IsSorted(hp, list) ==
    \A i \in 1..(Len(list) - 1) : CompareTermTest(hp, list[i], list[i + 1]) <= 0

\* sort_unstable_by(compare_term_test): every arrangement of the goals that is
\* in order; which of two equal goals comes first is not determined.
SortUnstable(hp, goals) ==
    LET n == Len(goals)
        perms == {f \in [1..n -> 1..n] : \A i, j \in 1..n : f[i] = f[j] => i = j}
    IN {s \in {[i \in 1..n |-> goals[f[i]]] : f \in perms} : IsSorted(hp, s)}

FetchAttributeGoalsNoDedup(hp, goals) == SortUnstable(hp, goals)

\* fetch_attribute_goals: the lists it may hand back for the pending goals.
FetchAttributeGoalsLists(hp, goals) ==
    {TermDedup(hp, s) : s \in SortUnstable(hp, goals)}

\* gather_attr_vars_created_since: the attributed variables enqueued from
\* position b on, in the order they were enqueued.
GatherAttrVarsCreatedSince(q, b) ==
    [i \in 1..(Len(q) - b) |-> AttrVar(q[b + i])]

EnqueueAttributedVarFront(hp, q, addr) ==
    LET d == StoreDeref(hp, addr)
    IN IF d.tag = "AttrVar" THEN <<d.h>> \o q ELSE q

\* EnqueueAttributedVar: the queue after the call.
EnqueueAttributedVarQueue(hp, q, addr) ==
    LET d == StoreDeref(hp, addr)
    IN IF d.tag = "AttrVar" THEN Append(q, d.h) ELSE q

\* The ledger's heap: two attributed variables with empty attribute lists, an
\* unbound variable, a reference to the first attributed variable, and a
\* variable bound to the integer 1.
LedgerHeap ==
    [i \in 0..6 |->
        IF i = 0 THEN AttrVar(0)
        ELSE IF i = 1 THEN HeapCell(1)
        ELSE IF i = 2 THEN AttrVar(2)
        ELSE IF i = 3 THEN HeapCell(3)
        ELSE IF i = 4 THEN HeapCell(4)
        ELSE IF i = 5 THEN HeapCell(0)
        ELSE ConInteger(1)]

\* The heap may grow by a delimiter and the longest list a built-in returns,
\* and in the goals' case by one more short answer.
QueueHeapCap == HLen(LedgerHeap) + 2 * MaxQueue + 3
GoalHeapCap == HLen(LedgerHeap) + 2 * MaxGoals + 4

\* What a caller may pass as a variable to enqueue, and as a goal.
VarArgs == {HeapCell(5), AttrVar(2), HeapCell(4)}
GoalArgs == {ConInteger(1), HeapCell(6), ConAtom("a")}

LedgerInit ==
    /\ ExtIdle
    /\ heap = LedgerHeap
    /\ dq_atom = FALSE
    /\ regs = <<ConEmptyList, ConEmptyList, ConEmptyList, ConEmptyList>>
    /\ pc = "ledger"
    /\ brent_st = BrentAlgStateNew(ConEmptyList)
    /\ max_steps = -1
    /\ search_result = None
    /\ fail = FALSE
    /\ error = "none"
    /\ attr_var_queue = <<>>
    /\ attribute_goals = <<>>
    /\ delim = -1
    /\ enqueued = <<>>
    /\ last_call = [op |-> "none"]

\* The variable a caller creates for an output argument.
FreshVar(hp) == HeapCell(HLen(hp))
WithFreshVar(hp) == HeapPush(hp, FreshVar(hp))

\* In the ledger's built-ins the argument registers are what the caller
\* loaded: an argument chosen here, an output argument a fresh variable.

EnqueueAttributeGoal ==
    /\ pc = "ledger"
    /\ UNCHANGED extVars
    /\ Len(attribute_goals) < MaxGoals
    /\ \E addr \in GoalArgs : attribute_goals' = Append(attribute_goals, addr)
    /\ last_call' = [op |-> "EnqueueAttributeGoal"]
    /\ UNCHANGED <<heap, regs, fail, walkVars, attr_var_queue, delim, enqueued>>

EnqueueAttributedVar ==
    /\ pc = "ledger"
    /\ UNCHANGED extVars
    /\ Len(attr_var_queue) < MaxQueue
    /\ \E addr \in VarArgs :
         /\ attr_var_queue' = EnqueueAttributedVarQueue(heap, attr_var_queue, addr)
         /\ enqueued' = IF StoreDeref(heap, addr).tag = "AttrVar"
                        THEN Append(enqueued, StoreDeref(heap, addr))
                        ELSE enqueued
    /\ last_call' = [op |-> "EnqueueAttributedVar"]
    /\ UNCHANGED <<heap, regs, fail, walkVars, attribute_goals, delim>>

ClearAttributeGoals ==
    /\ pc = "ledger"
    /\ UNCHANGED extVars
    /\ attribute_goals' = <<>>
    /\ last_call' = [op |-> "ClearAttributeGoals"]
    /\ UNCHANGED <<heap, regs, fail, walkVars, attr_var_queue, delim, enqueued>>

\* fetch_attribute_goals on the goals given, the first argument a fresh variable.
FetchGoals(op, goals) ==
    /\ HLen(heap) + 2 * Len(goals) + 2 <= GoalHeapCap
    /\ \E list \in FetchAttributeGoalsLists(heap, goals) :
         LET out == FreshVar(heap)
             l == HeapToList(WithFreshVar(heap), list)
             u == Unify(l.heap, HeapCell(l.at), out)
         IN /\ heap' = u.heap
            /\ fail' = u.fail
            /\ last_call' = [op |-> op, pending |-> goals, out |-> out]

CloneAttributeGoals ==
    /\ pc = "ledger"
    /\ UNCHANGED extVars
    /\ FetchGoals("CloneAttributeGoals", attribute_goals)
    /\ UNCHANGED <<regs, walkVars, attr_var_queue, attribute_goals, delim, enqueued>>

FetchAttributeGoalsKeep ==
    /\ pc = "ledger"
    /\ UNCHANGED extVars
    /\ FetchGoals("FetchAttributeGoals", attribute_goals)
    /\ UNCHANGED <<regs, walkVars, attr_var_queue, attribute_goals, delim, enqueued>>

FetchAttributeGoals ==
    /\ pc = "ledger"
    /\ UNCHANGED extVars
    /\ FetchGoals("FetchAttributeGoals", attribute_goals)
    /\ attribute_goals' = <<>>
    /\ UNCHANGED <<regs, walkVars, attr_var_queue, delim, enqueued>>

GetAttrVarQueueDelimiter ==
    /\ pc = "ledger"
    /\ UNCHANGED extVars
    /\ HLen(heap) + 1 <= QueueHeapCap
    /\ LET out == FreshVar(heap)
           u == Unify(WithFreshVar(heap), out, ConUsize(Len(attr_var_queue)))
       IN /\ heap' = u.heap
          /\ fail' = u.fail
          /\ delim' = Len(attr_var_queue)
          /\ enqueued' = <<>>
          /\ last_call' = [op |-> "GetAttrVarQueueDelimiter", out |-> out]
    /\ UNCHANGED <<regs, walkVars, attr_var_queue, attribute_goals>>

GetAttrVarQueueBeyond ==
    /\ pc = "ledger"
    /\ UNCHANGED extVars
    /\ \E a1 \in {ConUsize(b) : b \in 0..Len(attr_var_queue)}
                   \cup {ConInteger(-1), ConInteger(Len(attr_var_queue)), ConAtom("a")} :
         LET out == FreshVar(heap)
             d == StoreDeref(heap, a1)
             isB == (d.tag = "Con" /\ d.k = "Usize") \/ (IsInteger(d) /\ d.v >= 0)
         IN IF isB
            THEN LET l == HeapToList(WithFreshVar(heap),
                                     GatherAttrVarsCreatedSince(attr_var_queue, d.v))
                     u == Unify(l.heap, HeapCell(l.at), out)
                 IN /\ HLen(heap) + 2 * (Len(attr_var_queue) - d.v) + 2 <= QueueHeapCap
                    /\ heap' = u.heap
                    /\ fail' = u.fail
                    /\ last_call' = [op |-> "GetAttrVarQueueBeyond", b |-> d.v,
                                     out |-> out]
            ELSE /\ heap' = heap
                 /\ fail' = TRUE
                 /\ last_call' = [op |-> "GetAttrVarQueueBeyond", b |-> -1,
                                  out |-> out]
    /\ UNCHANGED <<regs, walkVars, attr_var_queue, attribute_goals, delim, enqueued>>

\* The attributed-variable queue and its built-ins.
QueueNext ==
    \/ EnqueueAttributedVar
    \/ GetAttrVarQueueDelimiter
    \/ GetAttrVarQueueBeyond

QueueSpec == LedgerInit /\ [][QueueNext]_vars

\* The pending goals and their built-ins.
GoalNext ==
    \/ EnqueueAttributeGoal
    \/ ClearAttributeGoals
    \/ CloneAttributeGoals
    \/ FetchAttributeGoals

GoalSpec == LedgerInit /\ [][GoalNext]_vars

\* The ledger after some calls of EnqueueAttributedVar and EnqueueAttributeGoal,
\* which leave the heap alone: any queue of attributed variables and any
\* pending goals, over the heap the ledger starts with.
QueuesOf(n) == UNION {[1..m -> {0, 2}] : m \in 0..n}
GoalsOf(n) == UNION {[1..m -> GoalArgs] : m \in 0..n}

FilledInit ==
    /\ ExtIdle
    /\ heap = LedgerHeap
    /\ dq_atom = FALSE
    /\ regs = <<ConEmptyList, ConEmptyList, ConEmptyList, ConEmptyList>>
    /\ pc = "ledger"
    /\ brent_st = BrentAlgStateNew(ConEmptyList)
    /\ max_steps = -1
    /\ search_result = None
    /\ fail = FALSE
    /\ error = "none"
    /\ attr_var_queue \in QueuesOf(MaxQueue)
    /\ attribute_goals \in GoalsOf(MaxGoals)
    /\ delim = -1
    /\ enqueued = [i \in 1..Len(attr_var_queue) |-> AttrVar(attr_var_queue[i])]
    /\ last_call = [op |-> "none"]

\* The built-ins that read or drain the filled ledger.
ReadNext ==
    \/ ClearAttributeGoals
    \/ CloneAttributeGoals
    \/ FetchAttributeGoals
    \/ GetAttrVarQueueBeyond

ReadSpec == FilledInit /\ [][ReadNext]_vars

\* ------------------------------------------------------------------ cut barriers
ConCutPoint(v) == [tag |-> "Con", k |-> "CutPoint", v |-> v]
IsBarrier(a) == a.tag = "Con" /\ a.k \in {"Usize", "CutPoint"}

\* Most entries of the SCC cut policy's stack.
MaxContPts == 1

\* Stack::index_or_frame(x).prelude.b: the choice point before the one at x.
\* The frame at address 0 is the bottom of the stack.
PreludeB(st, x) == st[x]

\* The chains of choice-point frames: each frame links to a lower address.
Stacks == {f \in [0..MaxOr -> 0..MaxOr] : f[0] = 0 /\ \A i \in 1..MaxOr : f[i] < i}

\* write_constant_to_var: binds a variable to the constant, compares otherwise.
WriteConstantToVar(hp, addr, c) == Unify(hp, addr, c)

\* reset_block: the block named by a Usize, none for another term.
ResetBlockValue(a) == IF a.tag = "Con" /\ a.k = "Usize" THEN a.v ELSE -1

\* The heap of the control built-ins: cell 0 is the variable a caller passes
\* for an output argument, cell 1 an unbound variable passed as an input.
OutVar == HeapCell(0)
CtrlHeap == [i \in 0..1 |-> HeapCell(i)]
\* The caller makes the output variable anew before a call.
Renewed(hp) == [hp EXCEPT ![0] = HeapCell(0)]

BarrierArgs ==
    {ConUsize(k) : k \in 0..MaxOr} \cup {ConCutPoint(1), ConAtom("a"), HeapCell(1)}
\* The continuation a cleaner is installed with: one for each depth of nesting.
CleanerNames == <<"c1", "c2", "c3", "c4">>
CleanerArgs == {ConAtom(CleanerNames[Len(cont_pts) + 1])}
\* The cleaners tracked at once: one more where only the cleaners are followed.
ContPtsCap == IF pc = "cleaners" THEN MaxContPts + 1 ELSE MaxContPts

\* What the control built-ins leave alone.
walkRest == <<dq_atom, brent_st, max_steps, search_result, error>>
ledgerRest == <<attr_var_queue, attribute_goals, delim, enqueued>>
ctrlFrame == <<regs, walkRest, ledgerRest, contVars, snapVars, sysVars>>

CtrlInit ==
    /\ heap = CtrlHeap
    /\ dq_atom = FALSE
    /\ regs = <<ConEmptyList, ConEmptyList, ConEmptyList, ConEmptyList>>
    /\ pc = "control"
    /\ brent_st = BrentAlgStateNew(ConEmptyList)
    /\ max_steps = -1
    /\ search_result = None
    /\ fail = FALSE
    /\ error = "none"
    /\ attr_var_queue = <<>>
    /\ attribute_goals = <<>>
    /\ delim = -1
    /\ enqueued = <<>>
    /\ last_call = [op |-> "none"]
    /\ stack \in Stacks
    /\ b_reg \in 0..MaxOr
    /\ block \in 0..MaxOr
    /\ cut_policy = "Default"
    /\ cont_pts = <<>>
    /\ ContIdle
    /\ SnapIdle
    /\ SysIdle

\* A built-in is entered with the failure flag clear.

CheckCutPointOneLink ==
    /\ pc = "control"
    /\ \E a1 \in BarrierArgs :
         LET addr == StoreDeref(heap, a1)
         IN /\ fail' = IF IsBarrier(addr)
                       THEN PreludeB(stack, b_reg) > addr.v
                       ELSE TRUE
            /\ last_call' = [op |-> "CheckCutPoint", arg |-> addr]
    /\ UNCHANGED <<heap, pc, ctrlVars, ctrlFrame>>

CheckCutPoint ==
    /\ pc = "control"
    /\ \E a1 \in BarrierArgs :
         LET addr == StoreDeref(heap, a1)
         IN /\ fail' = IF IsBarrier(addr)
                       THEN PreludeB(stack, PreludeB(stack, b_reg)) > addr.v
                       ELSE TRUE
            /\ last_call' = [op |-> "CheckCutPoint", arg |-> addr]
    /\ UNCHANGED <<heap, pc, ctrlVars, ctrlFrame>>

\* install_new_block on the register r holds, a fresh variable.
InstallNewBlockTo(hp) == WriteConstantToVar(Renewed(hp), OutVar, ConUsize(b_reg))

InstallNewBlockStale ==
    /\ pc = "control"
    /\ LET w == WriteConstantToVar(Renewed(heap), OutVar, ConUsize(block))
       IN heap' = w.heap /\ fail' = w.fail
    /\ last_call' = [op |-> "InstallNewBlock", out |-> OutVar]
    /\ UNCHANGED <<pc, ctrlVars, ctrlFrame>>

InstallNewBlock ==
    /\ pc = "control"
    /\ block' = b_reg
    /\ LET w == InstallNewBlockTo(heap)
       IN heap' = w.heap /\ fail' = w.fail
    /\ last_call' = [op |-> "InstallNewBlock", out |-> OutVar]
    /\ UNCHANGED <<pc, b_reg, stack, cut_policy, cont_pts, ctrlFrame>>

GetCurrentBlock ==
    /\ pc = "control"
    /\ LET w == WriteConstantToVar(Renewed(heap), OutVar, ConUsize(block))
       IN heap' = w.heap /\ fail' = w.fail
    /\ last_call' = [op |-> "GetCurrentBlock", out |-> OutVar]
    /\ UNCHANGED <<pc, ctrlVars, ctrlFrame>>

ResetBlock ==
    /\ pc = "control"
    /\ \E a1 \in {ConUsize(k) : k \in 0..MaxOr} \cup {ConAtom("a")} :
         LET v == ResetBlockValue(StoreDeref(heap, a1))
         IN /\ block' = IF v >= 0 THEN v ELSE block
            /\ fail' = (v < 0)
    /\ last_call' = [op |-> "ResetBlock"]
    /\ UNCHANGED <<heap, pc, b_reg, stack, cut_policy, cont_pts, ctrlFrame>>

CleanUpBlock ==
    /\ pc = "control"
    /\ \E a1 \in {ConUsize(k) : k \in 0..MaxOr} \cup {ConAtom("a")} :
         LET nb == StoreDeref(heap, a1)
         IN IF nb.tag = "Con" /\ nb.k = "Usize"
            THEN /\ b_reg' = IF nb.v > 0 /\ PreludeB(stack, b_reg) = nb.v
                             THEN PreludeB(stack, nb.v)
                             ELSE b_reg
                 /\ fail' = FALSE
            ELSE /\ b_reg' = b_reg
                 /\ fail' = TRUE
    /\ last_call' = [op |-> "CleanUpBlock"]
    /\ UNCHANGED <<heap, pc, block, stack, cut_policy, cont_pts, ctrlFrame>>

InstallSCCCleaner ==
    /\ pc \in {"control", "cleaners"}
    /\ Len(cont_pts) < ContPtsCap
    /\ \E addr \in CleanerArgs :
         cont_pts' = Append(cont_pts, <<addr, b_reg, block>>)
    /\ cut_policy' = "SCC"
    /\ block' = b_reg
    /\ LET w == InstallNewBlockTo(heap)
       IN heap' = w.heap /\ fail' = w.fail
    /\ last_call' = [op |-> "InstallSCCCleaner", out |-> OutVar]
    /\ UNCHANGED <<pc, b_reg, stack, ctrlFrame>>

GetSCCCleaner ==
    /\ \E dest \in {OutVar, ConAtom("c1")} :
         IF cut_policy # "SCC"
         THEN /\ pc' = "panic"
              /\ last_call' = [op |-> "GetSCCCleaner"]
              /\ UNCHANGED <<heap, fail, block, cont_pts>>
         ELSE IF cont_pts = <<>>
         THEN /\ fail' = TRUE
              /\ last_call' = [op |-> "GetSCCCleaner"]
              /\ UNCHANGED <<heap, pc, block, cont_pts>>
         ELSE LET top == cont_pts[Len(cont_pts)]
                  popped == SubSeq(cont_pts, 1, Len(cont_pts) - 1)
              IN IF PreludeB(stack, b_reg) <= top[2]
                 THEN /\ block' = top[3]
                      /\ cont_pts' = popped
                      /\ IF IsRef(dest)
                         THEN /\ heap' = Bind(Renewed(heap), dest, top[1])
                              /\ fail' = FALSE
                              /\ last_call' = [op |-> "GetSCCCleaner", out |-> dest]
                         ELSE /\ heap' = heap
                              /\ fail' = TRUE
                              /\ last_call' = [op |-> "GetSCCCleaner"]
                      /\ pc' = pc
                 ELSE /\ fail' = TRUE
                      /\ last_call' = [op |-> "GetSCCCleaner"]
                      /\ UNCHANGED <<heap, pc, block, cont_pts>>
    /\ pc \in {"control", "cleaners"}
    /\ UNCHANGED <<b_reg, stack, cut_policy, ctrlFrame>>

RestoreCutPolicyAlways ==
    /\ pc = "control"
    /\ cut_policy' = "Default"
    /\ fail' = FALSE
    /\ last_call' = [op |-> "RestoreCutPolicy"]
    /\ UNCHANGED <<heap, pc, b_reg, block, stack, cont_pts, ctrlFrame>>

RestoreCutPolicy ==
    /\ pc = "control"
    /\ cut_policy' = IF cut_policy = "SCC" /\ cont_pts = <<>>
                     THEN "Default"
                     ELSE cut_policy
    /\ fail' = FALSE
    /\ last_call' = [op |-> "RestoreCutPolicy"]
    /\ UNCHANGED <<heap, pc, b_reg, block, stack, cont_pts, ctrlFrame>>

\* The built-ins on cut barriers, over every chain of choice points.
BarrierNext ==
    \/ CheckCutPoint
    \/ InstallNewBlock
    \/ GetCurrentBlock
    \/ ResetBlock
    \/ CleanUpBlock

BarrierSpec == CtrlInit /\ [][BarrierNext]_vars

\* The built-ins that read or write the block or the cut policy, over the
\* chain in which every choice point links to the one just below.
PolicyInit ==
    /\ CtrlInit
    /\ stack = [i \in 0..MaxOr |-> IF i = 0 THEN 0 ELSE i - 1]

PolicyNext ==
    \/ InstallNewBlock
    \/ GetCurrentBlock
    \/ ResetBlock
    \/ CleanUpBlock
    \/ InstallSCCCleaner
    \/ GetSCCCleaner
    \/ RestoreCutPolicy

PolicySpec == PolicyInit /\ [][PolicyNext]_vars

\* The cleaners alone, while the running program makes and drops choice points.
CleanerInit ==
    /\ heap = CtrlHeap
    /\ dq_atom = FALSE
    /\ regs = <<ConEmptyList, ConEmptyList, ConEmptyList, ConEmptyList>>
    /\ pc = "cleaners"
    /\ brent_st = BrentAlgStateNew(ConEmptyList)
    /\ max_steps = -1
    /\ search_result = None
    /\ fail = FALSE
    /\ error = "none"
    /\ attr_var_queue = <<>>
    /\ attribute_goals = <<>>
    /\ delim = -1
    /\ enqueued = <<>>
    /\ last_call = [op |-> "none"]
    /\ stack = [i \in 0..MaxOr |-> IF i = 0 THEN 0 ELSE i - 1]
    /\ b_reg = 0
    /\ block = 0
    /\ cut_policy = "Default"
    /\ cont_pts = <<>>
    /\ ContIdle
    /\ SnapIdle
    /\ SysIdle

\* The running program makes a choice point: its frame is the next of the chain.
PushChoicePoint ==
    /\ pc = "cleaners"
    /\ b_reg < MaxOr
    /\ b_reg' = b_reg + 1
    /\ last_call' = [op |-> "PushChoicePoint"]
    /\ UNCHANGED <<heap, fail, pc, block, stack, cut_policy, cont_pts, ctrlFrame>>

\* The running program drops its latest choice point.
PopChoicePoint ==
    /\ pc = "cleaners"
    /\ b_reg > 0
    /\ b_reg' = PreludeB(stack, b_reg)
    /\ last_call' = [op |-> "PopChoicePoint"]
    /\ UNCHANGED <<heap, fail, pc, block, stack, cut_policy, cont_pts, ctrlFrame>>

CleanerNext ==
    \/ InstallSCCCleaner
    \/ GetSCCCleaner
    \/ PushChoicePoint
    \/ PopChoicePoint

CleanerSpec == CleanerInit /\ [][CleanerNext]_vars

\* ------------------------------------------------------------------ continuation chunks
\* Most permanent variables of an environment frame, most chunks captured.
MaxPerm == 2
MaxChunks == 2

Str(h) == [tag |-> "Str", h |-> h]
NamedStr(arity, name) == [tag |-> "NamedStr", arity |-> arity, name |-> name]

\* The term that stands for a code position, and Heap::to_local_code_ptr on it.
ConCode(p) == [tag |-> "Con", k |-> "Code", v |-> p]
ToLocalCodePtr(a) == a.v

\* The code: the call instruction of the clause with n permanent variables
\* stands at CodeAt(n); perm_vars() of the instruction found at p.
CodeAt(n) == 10 * (n + 1)
PermVars(p) == (p \div 10) - 1
\* The call instruction a chunk of n permanent variables is captured at: each
\* capture is made at a call of its own, k calls after the first of the clause.
CallSite(n, k) == CodeAt(n) + 2 * k

\* A cell of a frame just allocated, not yet written.
Uninit == [tag |-> "Uninit"]

\* Stack::allocate_and_frame: a frame of n cells on top of the stack.
AllocateAndFrame(frames, n) ==
    Append(frames, [e |-> 0, cp |-> 0, cells |-> [i \in 1..n |-> Uninit]])

\* The cells call_continuation_chunk writes into the frame of the chunk at s
\* with n cells: cell 1 with its cut point adjusted, then the loop over
\* s+3 .. s+2+n (exclusive), that skips the cell after the first.
ChunkCellsSkipping(hp, s, n, bv) ==
    LET first == AsAddr(hp, s + 2)
        loop == (s + 4)..(s + 1 + n)
    IN [i \in 1..n |->
          IF i = 1
          THEN (IF first.tag = "Con" /\ first.k = "CutPoint"
                THEN ConCutPoint(bv) ELSE first)
          ELSE IF (i + s + 1) \in loop THEN AsAddr(hp, i + s + 1)
          ELSE Uninit]

ChunkCells(hp, s, n, bv) ==
    LET first == AsAddr(hp, s + 2)
        loop == (s + 3)..(s + 1 + n)
    IN [i \in 1..n |->
          IF i = 1
          THEN (IF first.tag = "Con" /\ first.k = "CutPoint"
                THEN ConCutPoint(bv) ELSE first)
          ELSE IF (i + s + 1) \in loop THEN AsAddr(hp, i + s + 1)
          ELSE Uninit]

\* call_continuation_chunk on the machine m = [frames, e, p]: the machine
\* after it; what it returns is the new p.
CallContinuationChunk(hp, bv, m, chunk, return_p) ==
    LET c == StoreDeref(hp, chunk)
        s == c.h
        num_cells == hp[s].arity - 1
        cp == ToLocalCodePtr(AsAddr(hp, s + 1))
        allocated == AllocateAndFrame(m.frames, num_cells)
        e == Len(allocated)
    IN [frames |-> [allocated EXCEPT ![e] =
                       [e |-> m.e, cp |-> return_p,
                        cells |-> ChunkCells(hp, s, num_cells, bv)]],
        e |-> e,
        p |-> cp + 1]

RECURSIVE CallContinuationChunksForward(_, _, _, _, _)
\* The loop over the chunks, first chunk first.
CallContinuationChunksForward(hp, bv, m, chunks, return_p) ==
    IF chunks = <<>> THEN m
    ELSE LET m1 == CallContinuationChunk(hp, bv, m, Head(chunks), return_p)
         IN CallContinuationChunksForward(hp, bv, m1, Tail(chunks), m1.p)

RECURSIVE CallContinuationChunks(_, _, _, _, _)
\* The loop of CallContinuation over the chunks, last chunk first.
CallContinuationChunks(hp, bv, m, chunks, return_p) ==
    IF chunks = <<>> THEN m
    ELSE LET last == chunks[Len(chunks)]
             m1 == CallContinuationChunk(hp, bv, m, last, return_p)
         IN CallContinuationChunks(hp, bv, m1,
                                   SubSeq(chunks, 1, Len(chunks) - 1), m1.p)

\* The chunks on the heap, and the lists of them a caller may pass.
ChunksOn(hp) == {i \in DOMAIN hp : hp[i].tag = "NamedStr"}
ChunkLists(hp) ==
    {<<>>} \cup {<<HeapCell(i)>> : i \in ChunksOn(hp)}
           \cup {<<HeapCell(i), HeapCell(j)>> : i, j \in ChunksOn(hp)}

\* What a cell of an environment frame may hold.
CellValues == {ConCutPoint(0), HeapCell(0)}

\* What the built-ins on continuation chunks leave alone.
contFrame == <<regs, walkRest, ledgerRest, ctrlVars, snapVars, sysVars>>

ContInit ==
    /\ heap = [i \in 0..0 |-> HeapCell(0)]
    /\ dq_atom = FALSE
    /\ regs = <<ConEmptyList, ConEmptyList, ConEmptyList, ConEmptyList>>
    /\ pc = "continuation"
    /\ brent_st = BrentAlgStateNew(ConEmptyList)
    /\ max_steps = -1
    /\ search_result = None
    /\ fail = FALSE
    /\ error = "none"
    /\ attr_var_queue = <<>>
    /\ attribute_goals = <<>>
    /\ delim = -1
    /\ enqueued = <<>>
    /\ last_call = [op |-> "none"]
    /\ b_reg = MaxOr
    /\ block = 0
    /\ stack = [i \in 0..MaxOr |-> 0]
    /\ cut_policy = "Default"
    /\ cont_pts = <<>>
    /\ \E n \in 0..MaxPerm : \E cells \in [1..n -> CellValues] :
         and_frames = <<[e |-> 0, cp |-> 3, cells |-> cells]>>
    /\ e_reg = 1
    /\ p_reg = 5
    /\ cp_reg = 7
    /\ SnapIdle
    /\ SysIdle

GetContinuationChunk ==
    /\ pc = "continuation"
    /\ Cardinality(ChunksOn(heap)) < MaxChunks
    /\ \E a1 \in {ConUsize(e) : e \in 1..Len(and_frames)} \cup {ConAtom("a")} :
         LET ev == StoreDeref(heap, a1)
         IN IF ev.tag = "Con" /\ ev.k = "Usize"
            THEN LET site == CallSite(Len(and_frames[ev.v].cells),
                                      Cardinality({i \in DOMAIN heap : heap[i].tag = "NamedStr"}))
                     p_functor == ConCode(site)
                     num_cells == PermVars(ToLocalCodePtr(p_functor))
                     addrs == [i \in 1..num_cells |-> and_frames[ev.v].cells[i]]
                     hp0 == WithFreshVar(heap)
                     s == HLen(hp0)
                     hp1 == HeapPush(HeapPush(hp0, NamedStr(1 + num_cells, "cont_chunk")),
                                     p_functor)
                     hp2 == [i \in 0..(HLen(hp1) + num_cells - 1) |->
                                IF i < HLen(hp1) THEN hp1[i] ELSE addrs[i - HLen(hp1) + 1]]
                     u == Unify(hp2, FreshVar(heap), HeapCell(s))
                 IN /\ heap' = u.heap
                    /\ fail' = u.fail
                    /\ last_call' = [op |-> "GetContinuationChunk", e |-> ev.v,
                                     s |-> s, p |-> site, out |-> FreshVar(heap)]
            ELSE /\ heap' = heap
                 /\ fail' = TRUE
                 /\ last_call' = [op |-> "GetContinuationChunk", e |-> 0,
                                  s |-> 0, p |-> 0, out |-> a1]
    /\ UNCHANGED <<pc, contVars, contFrame>>

\* With no chunk the caller's code resumes, and the machine is followed no
\* further.
CallContinuation ==
    /\ pc = "continuation"
    /\ \E cont_chunks \in ChunkLists(heap) : \E last_call_flag \in BOOLEAN :
         LET return_p == IF last_call_flag THEN cp_reg ELSE p_reg + 1
             m == CallContinuationChunks(
                      heap, b_reg,
                      [frames |-> and_frames, e |-> e_reg, p |-> return_p],
                      cont_chunks, return_p)
         IN /\ Len(and_frames) + Len(cont_chunks) <= MaxChunks + 1
            /\ pc' = IF cont_chunks = <<>> THEN "resumed" ELSE pc
            /\ and_frames' = m.frames
            /\ e_reg' = m.e
            /\ p_reg' = m.p
            /\ last_call' = [op |-> "CallContinuation", chunks |-> cont_chunks,
                             return_p |-> return_p, last_call |-> last_call_flag]
    /\ UNCHANGED <<heap, fail, cp_reg, contFrame>>

ContNext ==
    \/ GetContinuationChunk
    \/ CallContinuation

ContSpec == ContInit /\ [][ContNext]_vars

\* ------------------------------------------------------------------ term snapshots
\* How deep the shape of a term is unfolded; most cells a snapshot built-in
\* finds on the heap above what a choice point kept.
ShapeDepth == 4
MaxPad == 1

HeapExtend(hp, cells) ==
    [i \in 0..(HLen(hp) + Len(cells) - 1) |->
        IF i < HLen(hp) THEN hp[i] ELSE cells[i - HLen(hp) + 1]]

\* Addr + n and Addr - n: the address moved, a constant as it is.
Shift(a, d) ==
    IF a.tag \in {"HeapCell", "AttrVar", "Lis", "Str"}
    THEN [a EXCEPT !.h = @ + d]
    ELSE a

\* One step of copy_term on a CopyBallTerm target: the cell of the stub under
\* scan is resolved. The stub's cell i (from 1) has the address base + i - 1,
\* base the length of the heap; fwd_var and fwd_lis tell where a variable
\* and a list cell of the heap went, -1 if nowhere yet.
CopyStep(hp, base, st) ==
    LET c == st.stub[st.scan]
        at == base + st.scan - 1
        advance == [st EXCEPT !.scan = @ + 1]
    IN IF c.tag \in {"HeapCell", "AttrVar"} /\ c.h < base
       THEN LET d == StoreDeref(hp, c)
            IN IF IsRef(d)
               THEN (IF st.fwd_var[d.h] # -1
                     THEN [advance EXCEPT !.stub[st.scan] = HeapCell(st.fwd_var[d.h])]
                     ELSE [advance EXCEPT !.stub[st.scan] = HeapCell(at),
                                          !.fwd_var[d.h] = at])
               ELSE [st EXCEPT !.stub[st.scan] = d]
       ELSE IF c.tag = "Lis" /\ c.h < base
       THEN IF st.fwd_lis[c.h] # -1
            THEN [advance EXCEPT !.stub[st.scan] = Lis(st.fwd_lis[c.h])]
            ELSE LET new == base + Len(st.stub)
                 IN [stub |-> [Append(Append(st.stub, hp[c.h]), hp[c.h + 1])
                                 EXCEPT ![st.scan] = Lis(new)],
                     scan |-> st.scan + 1,
                     fwd_var |-> st.fwd_var,
                     fwd_lis |-> [st.fwd_lis EXCEPT ![c.h] = new]]
       ELSE advance

RECURSIVE CopyScan(_, _, _, _)
CopyScan(hp, base, st, fuel) ==
    IF st.scan > Len(st.stub) \/ fuel = 0 THEN st.stub
    ELSE CopyScan(hp, base, CopyStep(hp, base, st), fuel - 1)

\* copy_term(CopyBallTerm::new(stack, heap, stub), addr, DeepCopy): the stub
\* with the copy of the term at addr appended, its root first.
CopyTerm(hp, stub, addr) ==
    CopyScan(hp, HLen(hp),
             [stub |-> Append(stub, addr),
              scan |-> Len(stub) + 1,
              fwd_var |-> [i \in DOMAIN hp |-> -1],
              fwd_lis |-> [i \in DOMAIN hp |-> -1]],
             4 * HLen(hp) + 4)

\* Ball::copy_and_align, and the variant that leaves the addresses alone.
CopyAndAlignInPlace(bl, h) == bl.stub

CopyAndAlign(bl, h) ==
    [i \in 1..Len(bl.stub) |-> Shift(bl.stub[i], h - bl.boundary)]

\* The ball of the term at addr, taken now; in the first variant the ball
\* holds the address alone and nothing is copied.
SnapshotByReference(hp, addr) == [boundary |-> HLen(hp), stub |-> <<addr>>]

Snapshot(hp, addr) == [boundary |-> HLen(hp), stub |-> CopyTerm(hp, <<>>, addr)]

\* The shape of a term: its unfolding to a depth, the variables numbered in
\* the order they are met first. seen lists the variables met so far.
RECURSIVE TermShapeFrom(_, _, _, _)
TermShapeFrom(hp, a, d, seen) ==
    LET v == StoreDeref(hp, a)
    IN IF IsRef(v)
       THEN (IF \E i \in 1..Len(seen) : seen[i] = v.h
             THEN [shape |-> <<"var", CHOOSE i \in 1..Len(seen) : seen[i] = v.h>>,
                   seen |-> seen]
             ELSE [shape |-> <<"var", Len(seen) + 1>>, seen |-> Append(seen, v.h)])
       ELSE IF v.tag = "Lis"
       THEN (IF d = 0 THEN [shape |-> <<"deep">>, seen |-> seen]
             ELSE LET hd == TermShapeFrom(hp, HeapCell(v.h), d - 1, seen)
                      tl == TermShapeFrom(hp, HeapCell(v.h + 1), d - 1, hd.seen)
                  IN [shape |-> <<"lis", hd.shape, tl.shape>>, seen |-> tl.seen])
       ELSE [shape |-> <<"con", v>>, seen |-> seen]

TermShape(hp, a) == TermShapeFrom(hp, a, ShapeDepth, <<>>).shape

\* The heap the snapshots are taken of: the variable X at 0, the partial
\* list [X, a | X] at 1, the cyclic list L = [1 | L] at 5.
SnapHeap ==
    [i \in 0..6 |->
        CASE i = 0 -> HeapCell(0)
          [] i = 1 -> HeapCell(0)
          [] i = 2 -> Lis(3)
          [] i = 3 -> ConAtom("a")
          [] i = 4 -> HeapCell(0)
          [] i = 5 -> ConInteger(1)
          [] i = 6 -> Lis(5)]

\* The terms a caller stores, and what X may be bound to.
SnapTerms == {HeapCell(0), Lis(1), Lis(5)}
SnapBindings == {ConAtom("b")}

\* A term of SnapTerms is there as long as the heap has not been cut below it.
OriginalsThere(hp) ==
    /\ HLen(hp) >= HLen(SnapHeap)
    /\ \A i \in 1..(HLen(SnapHeap) - 1) : hp[i] = SnapHeap[i]
    /\ hp[0] \in {HeapCell(0)} \cup SnapBindings
TermThere(hp, a) == a.tag = "Con" \/ OriginalsThere(hp)

\* The heap has at most MaxPad cells above those a choice point kept.
Tidy(hp) ==
    HLen(hp) <= (IF OriginalsThere(hp) THEN HLen(SnapHeap) ELSE 0) + MaxPad

\* A GetBall may follow another that found the heap tidy.
AfterGetBall(hp) ==
    /\ last_call.op = "GetBall"
    /\ last_call.h <= (IF OriginalsThere(hp) THEN HLen(SnapHeap) ELSE 0) + MaxPad

BallKey == "$ball"
NotStored == [tag |-> "NotStored"]

\* What the built-ins on snapshots leave alone.
snapFrame == <<regs, walkRest, ledgerRest, ctrlVars, contVars, sysVars>>

\* Before any snapshot: no global variable, no ball.
SnapStart ==
    /\ dq_atom = FALSE
    /\ regs = <<ConEmptyList, ConEmptyList, ConEmptyList, ConEmptyList>>
    /\ pc = "snapshot"
    /\ brent_st = BrentAlgStateNew(ConEmptyList)
    /\ max_steps = -1
    /\ search_result = None
    /\ fail = FALSE
    /\ error = "none"
    /\ attr_var_queue = <<>>
    /\ attribute_goals = <<>>
    /\ delim = -1
    /\ enqueued = <<>>
    /\ last_call = [op |-> "none"]
    /\ CtrlIdle
    /\ ContIdle
    /\ SysIdle
    /\ global_variables = [k \in Keys |-> NoEntry]
    /\ ball = BallNew
    /\ lifted_heap = <<>>
    /\ stored = [k \in Keys \cup {BallKey} |-> NotStored]

GlobalInit ==
    /\ heap = SnapHeap
    /\ SnapStart

\* X may have been bound since the choice point.
RoundTripInit ==
    /\ \E c \in {HeapCell(0)} \cup SnapBindings : heap = [SnapHeap EXCEPT ![0] = c]
    /\ SnapStart

\* The highest heap address past the copies the recorded offsets point at.
CopiesTop(gv) ==
    LET tops == {gv[k].offset + Len(gv[k].ball.stub) :
                    k \in {k2 \in Keys : gv[k2] # NoEntry /\ gv[k2].offset # -1}}
    IN IF tops = {} THEN 0 ELSE CHOOSE t \in tops : \A t2 \in tops : t2 <= t

\* The entry has an offset, and the heap two cells above the copies: a fetch
\* that copies nothing may follow one that made the heap untidy.
Cached(hp, entry) ==
    /\ entry # NoEntry
    /\ entry.offset # -1
    /\ HLen(hp) <= CopiesTop(global_variables) + 2

StoreGlobalVar ==
    /\ pc \in {"snapshot", "unifying"}
    /\ \E key \in Keys : \E value \in SnapTerms :
         /\ TermThere(heap, value)
         /\ Tidy(heap)
         /\ global_variables' =
              [global_variables EXCEPT ![key] =
                  [ball |-> Snapshot(heap, value), offset |-> -1]]
         /\ stored' = [stored EXCEPT ![key] =
                          [shape |-> TermShape(heap, value), src |-> value]]
         /\ last_call' = [op |-> "StoreGlobalVar", key |-> key]
    /\ fail' = FALSE
    /\ UNCHANGED <<heap, pc, ball, lifted_heap, snapFrame>>

FetchGlobalVar ==
    /\ pc = "snapshot"
    /\ \E key \in Keys :
         LET entry == global_variables[key]
             hp0 == WithFreshVar(heap)
             addr == FreshVar(heap)
             h == HLen(hp0)
         IN /\ Tidy(heap) \/ Cached(heap, entry)
            /\ IF entry = NoEntry
               THEN heap' = hp0 /\ fail' = TRUE
               ELSE IF entry.offset = -1
               THEN LET stub == CopyAndAlign(entry.ball, h)
                        u == Unify(HeapExtend(hp0, stub), addr, HeapCell(h))
                    IN heap' = u.heap /\ fail' = u.fail
               ELSE LET u == Unify(hp0, addr, HeapCell(entry.offset))
                    IN heap' = u.heap /\ fail' = u.fail
            /\ last_call' = [op |-> "FetchGlobalVar", key |-> key,
                             out |-> addr, h |-> h]
    /\ UNCHANGED <<pc, snapVars, snapFrame>>

ResetGlobalVarAtKeyAll ==
    /\ pc = "snapshot"
    /\ \E key \in Keys :
         /\ global_variables' = [k \in Keys |-> NoEntry]
         /\ stored' = [stored EXCEPT ![key] = NotStored]
         /\ last_call' = [op |-> "ResetGlobalVarAtKey", key |-> key]
    /\ fail' = FALSE
    /\ UNCHANGED <<heap, pc, ball, lifted_heap, snapFrame>>

ResetGlobalVarAtKey ==
    /\ pc = "snapshot"
    /\ \E key \in Keys :
         /\ global_variables' = [global_variables EXCEPT ![key] = NoEntry]
         /\ stored' = [stored EXCEPT ![key] = NotStored]
         /\ last_call' = [op |-> "ResetGlobalVarAtKey", key |-> key]
    /\ fail' = FALSE
    /\ UNCHANGED <<heap, pc, ball, lifted_heap, snapFrame>>

\* set_ball: the ball emptied, then the term of the first argument copied.
SetBall ==
    /\ pc = "snapshot"
    /\ \E value \in SnapTerms :
         /\ TermThere(heap, value)
         /\ Tidy(heap)
         /\ ball' = Snapshot(heap, value)
         /\ stored' = [stored EXCEPT ![BallKey] =
                          [shape |-> TermShape(heap, value), src |-> value]]
    /\ last_call' = [op |-> "SetBall", key |-> BallKey]
    /\ fail' = FALSE
    /\ UNCHANGED <<heap, pc, global_variables, lifted_heap, snapFrame>>

\* The ball is left as it is.
EraseBallKeeping ==
    /\ pc = "snapshot"
    /\ ball' = ball
    /\ stored' = [stored EXCEPT ![BallKey] = NotStored]
    /\ last_call' = [op |-> "EraseBall", key |-> BallKey]
    /\ fail' = FALSE
    /\ UNCHANGED <<heap, pc, global_variables, lifted_heap, snapFrame>>

EraseBall ==
    /\ pc = "snapshot"
    /\ ball' = BallNew
    /\ stored' = [stored EXCEPT ![BallKey] = NotStored]
    /\ last_call' = [op |-> "EraseBall", key |-> BallKey]
    /\ fail' = FALSE
    /\ UNCHANGED <<heap, pc, global_variables, lifted_heap, snapFrame>>

GetBall ==
    /\ pc = "snapshot"
    /\ Tidy(heap) \/ AfterGetBall(heap)
    /\ \E a1 \in {FreshVar(heap), ConAtom("a")} :
         LET hp0 == IF IsRef(a1) THEN WithFreshVar(heap) ELSE heap
             addr == StoreDeref(hp0, a1)
             h == HLen(hp0)
         IN /\ IF Len(ball.stub) > 0
               THEN LET hp1 == HeapExtend(hp0, CopyAndAlign(ball, h))
                        b1 == AsAddr(hp1, h)
                    IN IF IsRef(addr)
                       THEN heap' = Bind(hp1, addr, b1) /\ fail' = FALSE
                       ELSE heap' = hp1 /\ fail' = TRUE
               ELSE heap' = hp0 /\ fail' = TRUE
            /\ last_call' = [op |-> "GetBall", key |-> BallKey,
                             out |-> a1, h |-> h]
    /\ UNCHANGED <<pc, snapVars, snapFrame>>

\* The program goes on: it binds X, or it backtracks, X unbound again and
\* the heap cut back to where a choice point had it.
BindLive ==
    /\ pc = "snapshot"
    /\ OriginalsThere(heap)
    /\ heap[0] = HeapCell(0)
    /\ \E c \in SnapBindings : heap' = [heap EXCEPT ![0] = c]
    /\ last_call' = [op |-> "bind"]
    /\ fail' = FALSE
    /\ UNCHANGED <<pc, snapVars, snapFrame>>

Backtrack ==
    /\ pc = "snapshot"
    /\ \E n \in {0, HLen(SnapHeap)} :
         /\ n <= HLen(heap)
         /\ heap' = [i \in 0..(n - 1) |-> IF i = 0 THEN HeapCell(0) ELSE heap[i]]
    /\ last_call' = [op |-> "backtrack"]
    /\ fail' = FALSE
    /\ UNCHANGED <<pc, snapVars, snapFrame>>

GlobalNext ==
    \/ StoreGlobalVar
    \/ FetchGlobalVar
    \/ ResetGlobalVarAtKey
    \/ BindLive
    \/ Backtrack

GlobalSpec == GlobalInit /\ [][GlobalNext]_vars

\* Storing and fetching alone, through a global variable and through the ball.
RoundTripNext ==
    \/ StoreGlobalVar
    \/ FetchGlobalVar
    \/ SetBall
    \/ GetBall
    \/ EraseBall
    \/ Backtrack

RoundTripSpec == RoundTripInit /\ [][RoundTripNext]_vars

\* The ball alone.
BallNext ==
    \/ SetBall
    \/ GetBall
    \/ EraseBall
    \/ Backtrack

BallSpec == RoundTripInit /\ [][BallNext]_vars

\* ------------------------------------------------------------------ global variables with offsets
\* *offset = Some(h), and the variant that leaves the entry without offset.
RecordOffsetNone(entry, h) == entry

RecordOffset(entry, h) == [entry EXCEPT !.offset = h]

\* The third argument of FetchGlobalVarWithOffset: a fresh variable above the
\* second, or an integer that is no offset.
OffsetArgs(hp) == {HeapCell(HLen(hp) + 1), ConUsize(0)}

StoreGlobalVarWithOffset ==
    /\ pc = "snapshot"
    /\ \E key \in Keys : \E value \in SnapTerms :
         LET h == HLen(heap)
             bl == Snapshot(heap, value)
             u == Unify(HeapExtend(heap, CopyAndAlign(bl, h)), value, HeapCell(h))
         IN /\ TermThere(heap, value)
            /\ Tidy(heap)
            /\ global_variables' =
                 [global_variables EXCEPT ![key] = [ball |-> bl, offset |-> h]]
            /\ stored' = [stored EXCEPT ![key] =
                             [shape |-> TermShape(heap, value), src |-> value]]
            /\ heap' = u.heap
            /\ fail' = u.fail
            /\ last_call' = [op |-> "StoreGlobalVarWithOffset", key |-> key, h |-> h]
    /\ UNCHANGED <<pc, ball, lifted_heap, snapFrame>>

FetchGlobalVarWithOffset ==
    /\ pc \in {"snapshot", "unifying"}
    /\ \E key \in Keys : \E offset \in OffsetArgs(heap) :
         LET entry == global_variables[key]
             hp0 == IF IsRef(offset) THEN WithFreshVar(WithFreshVar(heap))
                    ELSE WithFreshVar(heap)
             addr == FreshVar(heap)
             h == HLen(hp0)
         IN /\ Tidy(heap) \/ Cached(heap, entry)
            /\ IF entry = NoEntry
               THEN /\ heap' = hp0
                    /\ fail' = TRUE
                    /\ UNCHANGED global_variables
               ELSE IF entry.offset = -1
               THEN LET stub == CopyAndAlign(entry.ball, h)
                        u == Unify(HeapExtend(hp0, stub), addr, HeapCell(h))
                    IN /\ heap' = u.heap
                       /\ fail' = u.fail
                       /\ global_variables' =
                            [global_variables EXCEPT ![key] = RecordOffset(entry, h)]
               ELSE LET u == UnifyInTurn(hp0, <<<<offset, ConUsize(entry.offset)>>,
                                                <<addr, HeapCell(entry.offset)>>>>)
                    IN /\ heap' = u.heap
                       /\ fail' = u.fail
                       /\ UNCHANGED global_variables
            /\ last_call' =
                 [op |-> "FetchGlobalVarWithOffset", key |-> key,
                  out |-> addr, offset |-> offset, h |-> h,
                  tried |-> IF entry # NoEntry /\ entry.offset # -1
                            THEN UnifyInTurn(hp0, <<<<offset, ConUsize(entry.offset)>>,
                                                    <<addr, HeapCell(entry.offset)>>>>).tried
                            ELSE <<>>]
    /\ UNCHANGED <<pc, ball, lifted_heap, stored, snapFrame>>

OffsetNext ==
    \/ StoreGlobalVar
    \/ StoreGlobalVarWithOffset
    \/ FetchGlobalVar
    \/ FetchGlobalVarWithOffset
    \/ ResetGlobalVarAtKey

OffsetSpec == GlobalInit /\ [][OffsetNext]_vars

\* ------------------------------------------------------------------ lifted heap
\* Most cells of the lifted heap when a solution is copied to it.
MaxLifted == 5

\* Heap::truncate on the lifted heap, a sequence: cell i of it is at i + 1.
LhTruncateShort(lh, n) ==
    IF n >= Len(lh) THEN lh
    ELSE SubSeq(lh, 1, IF n > 0 THEN n - 1 ELSE 0)

LhTruncate(lh, n) == IF n >= Len(lh) THEN lh ELSE SubSeq(lh, 1, n)

\* The three cells copy_findall_solution pushes before the copy: the list
\* cell, its head, its tail; with head and tail exchanged in the variant.
FindallHeaderCrossed(threshold) ==
    <<Lis(threshold + 1), HeapCell(threshold + 2), HeapCell(threshold + 3)>>

FindallHeader(threshold) ==
    <<Lis(threshold + 1), HeapCell(threshold + 3), HeapCell(threshold + 2)>>

\* copy_findall_solution: the lifted heap after it and what it returns.
CopyFindallSolution(hp, lh, lh_offset, copy_target) ==
    LET threshold == Len(lh) - lh_offset
    IN [lifted |-> CopyTerm(hp, lh \o FindallHeader(threshold), copy_target),
        old_threshold |-> threshold + lh_offset + 2]

\* The lifted heap after CopyToLiftedHeap with an offset not above its top.
CopiedToLiftedHeap(hp, lh, lh_offset, copy_target) ==
    LET c == CopyFindallSolution(hp, lh, lh_offset, copy_target)
        new_threshold == Len(c.lifted) - lh_offset
    IN [i \in 1..Len(c.lifted) |->
          IF i = c.old_threshold + 1 THEN HeapCell(new_threshold)
          ELSE IF i > c.old_threshold + 1
          THEN Shift(c.lifted[i], 0 - (HLen(hp) + lh_offset))
          ELSE c.lifted[i]]

\* A cell whose address came out of a subtraction that wrapped around.
Wrapped == [tag |-> "Wrapped"]

\* The element shapes of the list at a, <<"improper">> last if it does not
\* end in [] within the heap's length.
RECURSIVE ListShapes(_, _, _)
ListShapes(hp, a, fuel) ==
    LET v == StoreDeref(hp, a)
    IN IF v = ConEmptyList THEN <<>>
       ELSE IF v.tag = "Lis" /\ fuel > 0
       THEN <<TermShape(hp, HeapCell(v.h))>> \o ListShapes(hp, HeapCell(v.h + 1), fuel - 1)
       ELSE <<"improper">>

\* Where following the references from a ends: at a value or an unbound
\* variable ("ends"), at the index of a cell that is not there, where the
\* machine panics ("escapes"), or nowhere, deref going round for ever
\* ("loops").
RECURSIVE RefsFrom(_, _, _)
RefsFrom(hp, a, fuel) ==
    IF ~IsRef(a) THEN "ends"
    ELSE IF fuel = 0 THEN "loops"
    ELSE IF a.h \notin DOMAIN hp THEN "escapes"
    ELSE IF hp[a.h] = a THEN "ends"
    ELSE RefsFrom(hp, hp[a.h], fuel - 1)

\* What lies on the lifted heap from an outer collection, the solutions
\* copied and the offsets a caller passes.
OuterCells == <<ConAtom("outer")>>
LiftedTerms == {ConAtom("a"), HeapCell(0), Lis(3)}
LhOffsets == {ConUsize(o) : o \in 0..Len(OuterCells)} \cup {ConAtom("a")}

\* A collection ends with GetLiftedHeapFromOffset or TruncateLiftedHeapTo:
\* the program is then past it, at "collected".
\* History of the collection in progress: the offset it began at, the
\* shapes of the solutions copied at that offset, and whether it is still
\* being collected, has been closed, or was disturbed by another offset.
Collection(base) == [base |-> base, sols |-> <<>>, phase |-> "collecting"]

LiftedInit ==
    /\ \E c \in {HeapCell(0)} \cup SnapBindings : heap = [SnapHeap EXCEPT ![0] = c]
    /\ dq_atom = FALSE
    /\ regs = <<ConEmptyList, ConEmptyList, ConEmptyList, ConEmptyList>>
    /\ pc = "lifted"
    /\ brent_st = BrentAlgStateNew(ConEmptyList)
    /\ max_steps = -1
    /\ search_result = None
    /\ fail = FALSE
    /\ error = "none"
    /\ attr_var_queue = <<>>
    /\ attribute_goals = <<>>
    /\ delim = -1
    /\ enqueued = <<>>
    /\ last_call = [op |-> "none"]
    /\ CtrlIdle
    /\ ContIdle
    /\ SysIdle
    /\ global_variables = [k \in Keys |-> NoEntry]
    /\ ball = BallNew
    /\ lifted_heap \in {<<>>, OuterCells}
    /\ stored = Collection(Len(lifted_heap))

CopyToLiftedHeap ==
    /\ pc = "lifted"
    /\ Len(lifted_heap) <= MaxLifted
    /\ Tidy(heap)
    /\ OriginalsThere(heap)
    /\ \E a1 \in LhOffsets : \E copy_target \in LiftedTerms :
         LET lh_offset == StoreDeref(heap, a1)
         IN /\ last_call' = [op |-> "CopyToLiftedHeap", o |-> lh_offset]
            /\ IF lh_offset.tag = "Con" /\ lh_offset.k = "Usize"
               THEN IF lh_offset.v <= Len(lifted_heap)
                    THEN /\ lifted_heap' = CopiedToLiftedHeap(heap, lifted_heap,
                                                              lh_offset.v, copy_target)
                         /\ stored' =
                              IF stored.phase = "collecting" /\ stored.base = lh_offset.v
                              THEN [stored EXCEPT !.sols =
                                       Append(@, TermShape(heap, copy_target))]
                              ELSE [stored EXCEPT !.sols = <<>>, !.phase = "disturbed"]
                         /\ fail' = FALSE
                         /\ pc' = pc
                    \* lifted_heap.h() - lh_offset overflows: the built-in panics,
                    \* or the difference wraps and the cells it appends hold
                    \* wrapped addresses.
                    ELSE /\ \/ pc' = "panic" /\ lifted_heap' = lifted_heap
                            \/ /\ pc' = pc
                               /\ lifted_heap' = lifted_heap \o <<Wrapped, Wrapped, Wrapped, Wrapped>>
                         /\ stored' = [stored EXCEPT !.sols = <<>>, !.phase = "disturbed"]
                         /\ fail' = FALSE
               ELSE /\ lifted_heap' = lifted_heap
                    /\ stored' = stored
                    /\ fail' = TRUE
                    /\ pc' = pc
    /\ UNCHANGED <<heap, global_variables, ball, snapFrame>>

\* truncate_if_no_lifted_heap_diff with the constructor of the closing cell.
TruncateIfNoLiftedHeapDiff(lh, lh_offset, closing) ==
    IF lh_offset >= Len(lh) THEN LhTruncate(lh, lh_offset)
    ELSE Append(lh, closing)

TruncateIfNoLiftedHeapGrowth ==
    /\ pc = "lifted"
    /\ Len(lifted_heap) <= MaxLifted + 6
    /\ \E a1 \in LhOffsets :
         LET lh_offset == StoreDeref(heap, a1)
         IN /\ last_call' = [op |-> "TruncateIfNoLiftedHeapGrowth", o |-> lh_offset]
            /\ IF lh_offset.tag = "Con" /\ lh_offset.k = "Usize"
               THEN /\ lifted_heap' = TruncateIfNoLiftedHeapDiff(lifted_heap, lh_offset.v,
                                                                 ConEmptyList)
                    /\ stored' =
                         IF stored.phase = "collecting" /\ stored.base = lh_offset.v
                         THEN [stored EXCEPT !.phase = "closed"]
                         ELSE [stored EXCEPT !.sols = <<>>, !.phase = "disturbed"]
                    /\ fail' = FALSE
               ELSE /\ lifted_heap' = lifted_heap
                    /\ stored' = stored
                    /\ fail' = TRUE
    /\ UNCHANGED <<heap, pc, global_variables, ball, snapFrame>>

GetLiftedHeapFromOffset ==
    /\ pc = "lifted"
    /\ Tidy(heap)
    /\ \E a1 \in LhOffsets :
         LET lh_offset == StoreDeref(heap, a1)
             hp0 == WithFreshVar(heap)
             solutions == FreshVar(heap)
         IN /\ last_call' = [op |-> "GetLiftedHeapFromOffset", o |-> lh_offset,
                             out |-> solutions,
                             closed |-> (/\ stored.phase = "closed"
                                         /\ lh_offset = ConUsize(stored.base))]
            /\ IF lh_offset.tag = "Con" /\ lh_offset.k = "Usize"
               THEN /\ IF lh_offset.v >= Len(lifted_heap)
                       THEN LET u == Unify(hp0, solutions, ConEmptyList)
                            IN /\ heap' = u.heap
                               /\ fail' = u.fail
                               /\ lifted_heap' = lifted_heap
                               /\ pc' = "collected"
                       ELSE LET h == HLen(hp0)
                                cells == [i \in 1..(Len(lifted_heap) - lh_offset.v) |->
                                             Shift(lifted_heap[lh_offset.v + i], h)]
                                hp1 == HeapExtend(hp0, cells)
                                u == Unify(hp1, HeapCell(h), solutions)
                            IN /\ lifted_heap' = LhTruncate(lifted_heap, lh_offset.v)
                               /\ CASE RefsFrom(hp1, HeapCell(h), HLen(hp1)) = "escapes" ->
                                         heap' = hp1 /\ fail' = FALSE /\ pc' = "panic"
                                    [] RefsFrom(hp1, HeapCell(h), HLen(hp1)) = "loops" ->
                                         heap' = hp1 /\ fail' = FALSE /\ pc' = "diverged"
                                    [] OTHER ->
                                         heap' = u.heap /\ fail' = u.fail /\ pc' = "collected"
                    /\ stored' = Collection(Len(lifted_heap'))
               ELSE /\ heap' = hp0
                    /\ lifted_heap' = lifted_heap
                    /\ stored' = stored
                    /\ fail' = TRUE
                    /\ pc' = pc
    /\ UNCHANGED <<global_variables, ball, snapFrame>>

TruncateLiftedHeapTo ==
    /\ pc = "lifted"
    /\ \E a1 \in LhOffsets :
         LET lh_offset == StoreDeref(heap, a1)
         IN /\ last_call' = [op |-> "TruncateLiftedHeapTo", o |-> lh_offset]
            /\ IF lh_offset.tag = "Con" /\ lh_offset.k = "Usize"
               THEN /\ lifted_heap' = LhTruncate(lifted_heap, lh_offset.v)
                    /\ stored' = Collection(Len(lifted_heap'))
                    /\ fail' = FALSE
                    /\ pc' = "collected"
               ELSE /\ lifted_heap' = lifted_heap
                    /\ stored' = stored
                    /\ fail' = TRUE
                    /\ pc' = pc
    /\ UNCHANGED <<heap, global_variables, ball, snapFrame>>

\* Backtracking into the goal whose solutions are collected: the heap goes
\* back to the choice point, the lifted heap stays.
BacktrackKeepingLifted ==
    /\ pc = "lifted"
    /\ HLen(heap) > HLen(SnapHeap)
    /\ heap' = [i \in 0..(HLen(SnapHeap) - 1) |-> heap[i]]
    /\ last_call' = [op |-> "backtrack"]
    /\ fail' = FALSE
    /\ UNCHANGED <<pc, snapVars, snapFrame>>

LiftedNext ==
    \/ CopyToLiftedHeap
    \/ TruncateIfNoLiftedHeapGrowth
    \/ GetLiftedHeapFromOffset
    \/ TruncateLiftedHeapTo
    \/ BacktrackKeepingLifted

LiftedSpec == LiftedInit /\ [][LiftedNext]_vars

\* ------------------------------------------------------------------ built-ins of several unifications
\* Addr::DBRef: a predicate, or an operator together with the directory it
\* was taken from.
DBRefNamedPred(name, arity) ==
    [tag |-> "DBRef", kind |-> "NamedPred", name |-> name, arity |-> arity]
DBRefOp(priority, spec, name, dir) ==
    [tag |-> "DBRef", kind |-> "Op", priority |-> priority, spec |-> spec,
     name |-> name, op_dir |-> dir]

\* The specifiers LookupOpDBRef has a name for.
SpecNames == {"fx", "fy", "xf", "yf", "xfx", "xfy", "yfx"}

\* An argument that is not a variable and unifies with nothing the built-ins
\* produce.
Refusing == ConAtom("refuse")

\* The callers' arguments: argument k is a fresh variable or refuses.
ArgChoices(n) == [1..n -> {"var", "refuse"}]
RECURSIVE WithFreshVars(_, _)
WithFreshVars(hp, n) == IF n = 0 THEN hp ELSE WithFreshVars(WithFreshVar(hp), n - 1)
Arg(hp, c, k) == IF c[k] = "var" THEN HeapCell(HLen(hp) + k - 1) ELSE Refusing

\* A difference list on the lifted heap: [a|T], the variable T its last cell.
LiftedDiffList == <<Lis(1), ConAtom("a"), HeapCell(2)>>

SeveralInit ==
    /\ heap = SnapHeap
    /\ dq_atom = FALSE
    /\ regs = <<ConEmptyList, ConEmptyList, ConEmptyList, ConEmptyList>>
    /\ pc = "unifying"
    /\ brent_st = BrentAlgStateNew(ConEmptyList)
    /\ max_steps = -1
    /\ search_result = None
    /\ fail = FALSE
    /\ error = "none"
    /\ attr_var_queue = <<>>
    /\ attribute_goals = <<>>
    /\ delim = -1
    /\ enqueued = <<>>
    /\ last_call = [op |-> "none"]
    /\ CtrlIdle
    /\ and_frames = <<[e |-> 0, cp |-> CodeAt(0) + 1, cells |-> <<>>],
                      [e |-> 1, cp |-> CodeAt(1) + 1, cells |-> <<>>]>>
    /\ e_reg \in 0..2
    /\ p_reg = 0
    /\ cp_reg = 0
    /\ SysIdle
    /\ global_variables = [k \in Keys |-> NoEntry]
    /\ ball = BallNew
    /\ lifted_heap \in {<<>>, LiftedDiffList}
    /\ stored = [k \in Keys \cup {BallKey} |-> NotStored]

\* What the built-ins below leave alone.
severalFrame == <<regs, pc, walkRest, ledgerRest, ctrlVars, contVars, sysVars,
                  global_variables, ball, stored>>

\* The end of skip_max_list: the count and the remainder unified with the
\* first and the fourth argument.
SkipMaxListEnd ==
    /\ pc = "unifying"
    /\ Tidy(heap)
    /\ \E c \in ArgChoices(2) : \E n \in 0..1 :
         LET hp0 == WithFreshVars(heap, 2)
             rg == <<IF c[1] = "var" THEN Arg(heap, c, 1) ELSE ConInteger(1),
                     ConEmptyList, ConEmptyList, Arg(heap, c, 2)>>
             u == FinalizeSkipMaxList(hp0, rg, n, ConEmptyList)
         IN /\ heap' = u.heap
            /\ fail' = u.fail
            /\ last_call' = [op |-> "FinalizeSkipMaxList", tried |-> u.tried]
    /\ UNCHANGED <<lifted_heap, severalFrame>>

\* Heap::allocate_pstr of a non-empty atom, given by the widths of its
\* characters: the string's cell and the cell of its tail, an unbound variable.
CreatePartialString ==
    /\ pc = "unifying"
    /\ Tidy(heap)
    /\ \E c \in ArgChoices(2) : \E atom \in {<<1>>, <<1, 2>>} :
         LET hp0 == WithFreshVars(heap, 2)
             h == HLen(hp0)
             hp1 == HeapPush(HeapPush(hp0, PartialString(atom)),
                             HeapCell(h + 1))
             pstr == PStrLocation(h, 0)
             pstr_tail == AsAddr(hp1, h + 1)
             u == UnifyInTurn(hp1, <<<<Arg(heap, c, 1), pstr>>,
                                     <<Arg(heap, c, 2), pstr_tail>>>>)
         IN /\ heap' = u.heap
            /\ fail' = u.fail
            /\ last_call' = [op |-> "CreatePartialString", tried |-> u.tried]
    /\ UNCHANGED <<lifted_heap, severalFrame>>

LookupDBRef ==
    /\ pc = "unifying"
    /\ Tidy(heap)
    /\ \E c \in ArgChoices(2) :
       \E a1 \in {DBRefNamedPred("p", 1), DBRefOp(200, "xfx", "op", <<>>), ConAtom("a")} :
         LET hp0 == WithFreshVars(heap, 2)
             db_ref == StoreDeref(hp0, a1)
         IN IF db_ref.tag = "DBRef" /\ db_ref.kind = "NamedPred"
            THEN LET u == UnifyInTurn(hp0,
                              <<<<Arg(heap, c, 1), ConAtom(db_ref.name)>>,
                                <<Arg(heap, c, 2), ConInteger(db_ref.arity)>>>>)
                 IN /\ heap' = u.heap
                    /\ fail' = u.fail
                    /\ last_call' = [op |-> "LookupDBRef", tried |-> u.tried]
            ELSE /\ heap' = hp0
                 /\ fail' = TRUE
                 /\ last_call' = [op |-> "LookupDBRef", tried |-> <<>>]
    /\ UNCHANGED <<lifted_heap, severalFrame>>

LookupOpDBRef ==
    /\ pc = "unifying"
    /\ Tidy(heap)
    /\ \E c \in ArgChoices(3) :
       \E a1 \in {DBRefOp(200, "xfx", "op", <<>>), DBRefOp(200, "fy", "op", <<>>),
                  DBRefOp(200, "term", "op", <<>>), DBRefNamedPred("p", 1),
                  ConAtom("a")} :
         LET hp0 == WithFreshVars(heap, 3)
             db_ref == StoreDeref(hp0, a1)
         IN IF db_ref.tag = "DBRef" /\ db_ref.kind = "Op" /\ db_ref.spec \in SpecNames
            THEN LET u == UnifyInTurn(hp0,
                              <<<<ConInteger(db_ref.priority), Arg(heap, c, 1)>>,
                                <<ConAtom(db_ref.spec), Arg(heap, c, 2)>>,
                                <<ConAtom(db_ref.name), Arg(heap, c, 3)>>>>)
                 IN /\ heap' = u.heap
                    /\ fail' = u.fail
                    /\ last_call' = [op |-> "LookupOpDBRef", tried |-> u.tried]
            ELSE /\ heap' = hp0
                 /\ fail' = TRUE
                 /\ last_call' = [op |-> "LookupOpDBRef", tried |-> <<>>]
    /\ UNCHANGED <<lifted_heap, severalFrame>>

\* The first argument is the atom first, for the current environment, or the
\* address of an environment frame.
NextEP ==
    /\ pc = "unifying"
    /\ Tidy(heap)
    /\ \E c \in ArgChoices(2) :
       \E first_arg \in {ConAtom("first")} \cup {ConUsize(e) : e \in 0..Len(and_frames)} :
         LET hp0 == WithFreshVars(heap, 2)
             at == IF first_arg.k = "Atom" THEN e_reg ELSE first_arg.v
         IN IF at = 0
            THEN /\ heap' = hp0
                 /\ fail' = TRUE
                 /\ last_call' = [op |-> "NextEP", tried |-> <<>>]
            ELSE LET cp == and_frames[at].cp - 1
                     e == ConUsize(and_frames[at].e)
                     p == ConCode(cp)
                     u == UnifyInTurn(hp0, <<<<Arg(heap, c, 1), e>>,
                                             <<Arg(heap, c, 2), p>>>>)
                 IN /\ heap' = u.heap
                    /\ fail' = u.fail
                    /\ last_call' = [op |-> "NextEP", tried |-> u.tried]
    /\ UNCHANGED <<lifted_heap, severalFrame>>

\* The offsets a caller passes: the start of the lifted heap, its end, or no
\* offset at all.
GetLiftedHeapFromOffsetDiff ==
    /\ pc = "unifying"
    /\ Tidy(heap)
    /\ \E c \in ArgChoices(2) :
       \E a1 \in {ConUsize(0), ConUsize(Len(LiftedDiffList)), ConAtom("a")} :
         LET hp0 == WithFreshVars(heap, 2)
             lh_offset == StoreDeref(hp0, a1)
             solutions == Arg(heap, c, 1)
             diff == Arg(heap, c, 2)
         IN IF lh_offset.tag = "Con" /\ lh_offset.k = "Usize"
            THEN IF lh_offset.v >= Len(lifted_heap)
                 THEN LET u == UnifyEach(hp0, <<<<solutions, ConEmptyList>>,
                                              <<diff, ConEmptyList>>>>)
                      IN /\ heap' = u.heap
                         /\ fail' \in {u.fail, u.last}
                         /\ lifted_heap' = lifted_heap
                         /\ last_call' = [op |-> "GetLiftedHeapFromOffsetDiff",
                                          tried |-> u.tried]
                 ELSE LET h == HLen(hp0)
                          cells == [i \in 1..(Len(lifted_heap) - lh_offset.v) |->
                                       Shift(lifted_heap[lh_offset.v + i], h)]
                          hp1 == HeapExtend(hp0, cells)
                          last_index == HLen(hp1) - 1
                          u == UnifyEach(hp1,
                                 (IF hp1[last_index].tag \notin {"NamedStr", "PartialString"}
                                  THEN <<<<diff, hp1[last_index]>>>> ELSE <<>>)
                                 \o <<<<HeapCell(h), solutions>>>>)
                      IN /\ heap' = u.heap
                         /\ fail' \in {u.fail, u.last}
                         /\ lifted_heap' = LhTruncate(lifted_heap, lh_offset.v)
                         /\ last_call' = [op |-> "GetLiftedHeapFromOffsetDiff",
                                          tried |-> u.tried]
            ELSE /\ heap' = hp0
                 /\ fail' = TRUE
                 /\ lifted_heap' = lifted_heap
                 /\ last_call' = [op |-> "GetLiftedHeapFromOffsetDiff", tried |-> <<>>]
    /\ UNCHANGED severalFrame

SeveralNext ==
    \/ SkipMaxListEnd
    \/ CreatePartialString
    \/ LookupDBRef
    \/ LookupOpDBRef
    \/ NextEP
    \/ StoreGlobalVar
    \/ FetchGlobalVarWithOffset
    \/ GetLiftedHeapFromOffsetDiff

SeveralSpec == SeveralInit /\ [][SeveralNext]_vars

\* ------------------------------------------------------------------ database references
\* The names of predicates and operators in ascending order, a name the
\* characters of its atom; the fixities in ascending order.
AtomNames == <<<<"$", "p">>, <<"p">>, <<"q">>>>
OpNames == {<<"p">>, <<"q">>}
FixityOrder == <<"In", "Post", "Pre">>
MaxArity == 1
MaxPrec == 1

RankIn(seq, x) == CHOOSE i \in 1..Len(seq) : seq[i] = x

\* The keys of the two directories as numbers: (name, arity) and
\* OrderedOpDirKey(name, fixity), compared name first.
PredKey(name, arity) == RankIn(AtomNames, name) * (MaxArity + 1) + arity
OpKey(name, fixity) == RankIn(AtomNames, name) * Len(FixityOrder) + RankIn(FixityOrder, fixity)

\* The entries of a set in ascending key order: a BTreeMap's iteration.
RECURSIVE InKeyOrder(_, _)
InKeyOrder(entries, key) ==
    IF entries = {} THEN <<>>
    ELSE LET first == CHOOSE e \in entries : \A e2 \in entries : key[e] <= key[e2]
         IN <<first>> \o InKeyOrder(entries \ {first}, key)

\* dir.range(key..).skip(1): the entries from the key on, but the first.
RangeSkipFirst(dir, keys, key) ==
    LET from == SelectSeq(dir, LAMBDA e : keys[e] >= key)
    IN IF from = <<>> THEN <<>> ELSE Tail(from)

is_builtin_predicate(name, module) ==
    LET in_builtins == module = "builtins"
        hidden_name == name # <<>> /\ Head(name) = "$"
    IN in_builtins \/ hidden_name

\* A code directory: each key absent, or there with its owning module and
\* with or without code (idx.is_undefined()).
PredEntry(name, arity, module, undefined) ==
    [name |-> name, arity |-> arity, module |-> module, undefined |-> undefined]
PredKeyOf == [e \in [name : {AtomNames[i] : i \in 1..Len(AtomNames)}, arity : 0..MaxArity,
                     module : {"user", "builtins"}, undefined : BOOLEAN] |->
                 PredKey(e.name, e.arity)]
PredKinds == {"absent", "user", "builtins", "undefined"}
PredKeys == {<<<<"$", "p">>, 0>>, <<<<"p">>, 0>>, <<<<"p">>, 1>>, <<<<"q">>, 0>>}
CodeDirOf(kinds) ==
    InKeyOrder({PredEntry(k[1], k[2], IF kinds[k] = "builtins" THEN "builtins" ELSE "user",
                          kinds[k] = "undefined") :
                   k \in {k2 \in DOMAIN kinds : kinds[k2] # "absent"}},
               PredKeyOf)

\* No reference: the enumeration found nothing more.
NoRef == [tag |-> "NoRef"]

\* GetNextDBRef on an unbound argument: the first entry that is no built-in.
RECURSIVE FirstPred(_)
FirstPred(dir) ==
    IF dir = <<>> THEN NoRef
    ELSE IF is_builtin_predicate(Head(dir).name, Head(dir).module) THEN FirstPred(Tail(dir))
    ELSE DBRefNamedPred(Head(dir).name, Head(dir).arity)

\* The loop of get_next_db_ref over the entries after the key.
RECURSIVE NextPred(_, _)
NextPred(rest, a2) ==
    IF rest = <<>> THEN NoRef
    ELSE IF Head(rest).undefined THEN NoRef
    ELSE IF is_builtin_predicate(Head(rest).name, Head(rest).module)
    THEN NextPred(Tail(rest), a2)
    ELSE IF IsRef(a2) THEN DBRefNamedPred(Head(rest).name, Head(rest).arity)
    ELSE NextPred(Tail(rest), a2)

\* An operator of a directory; the fixity its specifier stands for.
OpEntry(name, fixity, prec, spec) ==
    [name |-> name, fixity |-> fixity, prec |-> prec, spec |-> spec]
FixityOf(spec) ==
    IF spec \in {"xf", "yf"} THEN "Post"
    ELSE IF spec \in {"fx", "fy"} THEN "Pre"
    ELSE "In"
OpSpecs == {"fy", "xfx", "yf"}
\* The operators a program declares.
OpDecls == {<<<<"p">>, "fy">>, <<<<"p">>, "xfx">>, <<<<"q">>, "yf">>}
OpKeyOf == [e \in [name : OpNames, fixity : {"In", "Post", "Pre"}, prec : 0..MaxPrec,
                   spec : OpSpecs] |-> OpKey(e.name, e.fixity)]

\* The OssifiedOpDir of GetNextOpDBRef: the operators of priority other than
\* 0, in key order.
OssifiedOpDir(dir) == InKeyOrder({e \in dir : e.prec # 0}, OpKeyOf)

\* The directory a step from an operator reference looks in: the one the
\* reference carries, or in the variant the operators as they are now.
StepDirLive(db_ref, dir) == OssifiedOpDir(dir)

StepDir(db_ref, dir) == db_ref.op_dir

RefOfOp(e, dir) == DBRefOp(e.prec, e.spec, e.name, dir)

\* get_next_db_ref on an operator reference.
NextOp(db_ref, dir, a2) ==
    LET snap == StepDir(db_ref, dir)
        rest == RangeSkipFirst(snap, OpKeyOf, OpKey(db_ref.name, FixityOf(db_ref.spec)))
    IN IF rest = <<>> THEN NoRef
       ELSE IF IsRef(a2) THEN RefOfOp(Head(rest), snap)
       ELSE NoRef

DbInit ==
    /\ heap = [i \in 0..0 |-> HeapCell(0)]
    /\ dq_atom = FALSE
    /\ regs = <<ConEmptyList, ConEmptyList, ConEmptyList, ConEmptyList>>
    /\ pc = "listing"
    /\ brent_st = BrentAlgStateNew(ConEmptyList)
    /\ max_steps = -1
    /\ search_result = None
    /\ fail = FALSE
    /\ error = "none"
    /\ attr_var_queue = <<>>
    /\ attribute_goals = <<>>
    /\ delim = -1
    /\ enqueued = <<>>
    /\ last_call = [op |-> "none"]
    /\ CtrlIdle
    /\ ContIdle
    /\ SnapIdle
    /\ trail = <<>>
    /\ saved = NotSaved
    /\ current_input_stream = Stdin
    /\ current_output_stream = Stdout
    /\ call_policy = DefaultCallPolicy
    /\ listed = NotListed

PredInit ==
    /\ DbInit
    /\ \E kinds \in [PredKeys -> PredKinds] : code_dir = CodeDirOf(kinds)
    /\ op_dir = {}

OpInit ==
    /\ DbInit
    /\ code_dir = <<>>
    /\ op_dir = {}

\* What the enumerations leave alone.
dbFrame == <<regs, walkRest, ledgerRest, ctrlVars, contVars, snapVars, trail, saved,
             current_input_stream, current_output_stream, call_policy>>

\* The first argument of a step: an unbound variable before the first
\* reference, afterwards the reference returned last; or a reference of the
\* other kind, or no reference at all.
StepArgs(other) ==
    (IF listed.refs = <<>> THEN {FreshVar(heap)} ELSE {listed.refs[Len(listed.refs)]})
        \cup {other, ConAtom("a")}

\* The enumeration goes on after a reference, is over ("listed") when a
\* step from the last reference fails, and is given up when the caller
\* passed something else.
AfterStep(ref, a1, a2, other) ==
    IF ref # NoRef THEN "listing"
    ELSE IF a1 \notin {other, ConAtom("a")} /\ IsRef(a2) THEN "listed"
    ELSE "abandoned"

GetNextDBRef ==
    /\ pc = "listing"
    /\ \E a1 \in StepArgs(DBRefOp(1, "xfx", <<"p">>, <<>>)) :
       \E a2 \in {HeapCell(HLen(heap) + 1), ConAtom("a")} :
         LET hp0 == WithFreshVars(heap, 2)
             addr == StoreDeref(hp0, a1)
             ref == IF IsRef(addr) THEN FirstPred(code_dir)
                    ELSE IF addr.tag = "DBRef" /\ addr.kind = "NamedPred"
                    THEN NextPred(RangeSkipFirst(code_dir, PredKeyOf,
                                                 PredKey(addr.name, addr.arity)), a2)
                    ELSE NoRef
             r == IF IsRef(addr) THEN addr ELSE a2
         IN /\ heap' = IF ref = NoRef THEN hp0 ELSE Bind(hp0, r, ref)
            /\ fail' = (ref = NoRef)
            /\ listed' = IF IsRef(addr)
                         THEN [begun |-> TRUE, from |-> code_dir,
                               refs |-> IF ref = NoRef THEN <<>> ELSE <<ref>>]
                         ELSE IF ref = NoRef THEN listed
                         ELSE [listed EXCEPT !.refs = Append(@, ref)]
            /\ pc' = AfterStep(ref, a1, a2, DBRefOp(1, "xfx", <<"p">>, <<>>))
            /\ last_call' = [op |-> "GetNextDBRef", a1 |-> a1, a2 |-> a2]
    /\ UNCHANGED <<code_dir, op_dir, error, dbFrame>>

GetNextOpDBRef ==
    /\ pc = "listing"
    /\ \E a1 \in StepArgs(DBRefNamedPred(<<"p">>, 0)) :
       \E a2 \in {HeapCell(HLen(heap) + 1), ConAtom("a")} :
         LET hp0 == WithFreshVars(heap, 2)
             addr == StoreDeref(hp0, a1)
             ossified_op_dir == OssifiedOpDir(op_dir)
             ref == IF IsRef(addr)
                    THEN (IF ossified_op_dir = <<>> THEN NoRef
                          ELSE RefOfOp(Head(ossified_op_dir), ossified_op_dir))
                    ELSE IF addr.tag = "DBRef" /\ addr.kind = "Op"
                    THEN NextOp(addr, op_dir, a2)
                    ELSE NoRef
             r == IF IsRef(addr) THEN addr ELSE a2
         IN /\ heap' = IF ref = NoRef THEN hp0 ELSE Bind(hp0, r, ref)
            /\ fail' = (ref = NoRef)
            /\ listed' = IF IsRef(addr)
                         THEN [begun |-> TRUE, from |-> op_dir,
                               refs |-> IF ref = NoRef THEN <<>> ELSE <<ref>>]
                         ELSE IF ref = NoRef THEN listed
                         ELSE [listed EXCEPT !.refs = Append(@, ref)]
            /\ pc' = AfterStep(ref, a1, a2, DBRefNamedPred(<<"p">>, 0))
            /\ last_call' = [op |-> "GetNextOpDBRef", a1 |-> a1, a2 |-> a2]
    /\ UNCHANGED <<code_dir, op_dir, error, dbFrame>>

\* The program declares an operator while it enumerates: op(prec, spec, name),
\* priority 0 taking the operator away.
DeclareOp ==
    /\ pc = "listing"
    /\ \E d \in OpDecls : \E prec \in 0..MaxPrec :
         /\ op_dir' = {e \in op_dir : ~(e.name = d[1] /\ e.fixity = FixityOf(d[2]))}
                        \cup {OpEntry(d[1], FixityOf(d[2]), prec, d[2])}
         /\ op_dir' # op_dir
    /\ last_call' = [op |-> "DeclareOp"]
    /\ UNCHANGED <<heap, fail, pc, error, code_dir, listed, dbFrame>>

PredNext == GetNextDBRef

PredSpec == PredInit /\ [][PredNext]_vars

OpNext ==
    \/ GetNextOpDBRef
    \/ DeclareOp

OpSpec == OpInit /\ [][OpNext]_vars

\* ------------------------------------------------------------------ trail
\* The variable MachineState::bind overwrites when it binds d1 and d2.
BindTarget(d1, d2) ==
    IF IsRef(d1) /\ IsRef(d2)
    THEN (IF d1.tag = "AttrVar" /\ d2.tag # "AttrVar" THEN d2
          ELSE IF d2.tag = "AttrVar" /\ d1.tag # "AttrVar" THEN d1
          ELSE IF d1.h < d2.h THEN d2
          ELSE d1)
    ELSE IF IsRef(d1) THEN d1
    ELSE d2

\* No occurs check at all.
OccursInNever(hp, v, t, seen) == FALSE

RECURSIVE OccursIn(_, _, _, _)
\* The occurs check: the variable v occurs in the term t.
OccursIn(hp, v, t, seen) ==
    LET d == StoreDeref(hp, t)
    IN IF IsRef(d) THEN d = v
       ELSE IF d.tag = "Lis"
       THEN d.h \notin seen
            /\ \E i \in 0..1 : OccursIn(hp, v, HeapCell(d.h + i), seen \cup {d.h})
       ELSE IF d.tag = "Str"
       THEN d.h \notin seen
            /\ \E i \in 1..hp[d.h].arity :
                  OccursIn(hp, v, HeapCell(d.h + i), seen \cup {d.h})
       ELSE FALSE

\* The pairs that unifying two compound terms of the same kind leaves to unify.
ArgPairs(hp, d1, d2) ==
    IF d1.tag = "Lis"
    THEN <<<<HeapCell(d1.h), HeapCell(d2.h)>>, <<HeapCell(d1.h + 1), HeapCell(d2.h + 1)>>>>
    ELSE [i \in 1..hp[d1.h].arity |-> <<HeapCell(d1.h + i), HeapCell(d2.h + i)>>]

SameFunctor(hp, d1, d2) ==
    \/ d1.tag = "Lis" /\ d2.tag = "Lis"
    \/ d1.tag = "Str" /\ d2.tag = "Str" /\ hp[d1.h] = hp[d2.h]

\* MachineState::trail: one record for the variable bound.
Trail(tr, v) == Append(tr, v.h)

RECURSIVE UnifyTrailLoop(_, _, _, _, _)
\* MachineState::unify and unify_with_occurs_check, with the trail: every
\* binding pushes one trail record; a mismatch, or with the occurs check a
\* variable met in the compound it would be bound to, sets the failure flag and
\* leaves the bindings made so far.
UnifyTrailLoop(hp, tr, pdl, occurs, fuel) ==
    IF pdl = <<>> THEN [heap |-> hp, trail |-> tr, fail |-> FALSE, diverged |-> FALSE]
    ELSE IF fuel = 0 THEN [heap |-> hp, trail |-> tr, fail |-> FALSE, diverged |-> TRUE]
    ELSE LET d1 == StoreDeref(hp, Head(pdl)[1])
             d2 == StoreDeref(hp, Head(pdl)[2])
         IN IF d1 = d2 THEN UnifyTrailLoop(hp, tr, Tail(pdl), occurs, fuel - 1)
            ELSE IF IsRef(d1) \/ IsRef(d2)
            THEN LET v == BindTarget(d1, d2)
                     other == IF v = d1 THEN d2 ELSE d1
                 IN IF occurs /\ ~IsRef(other) /\ OccursIn(hp, v, other, {})
                    THEN [heap |-> hp, trail |-> tr, fail |-> TRUE, diverged |-> FALSE]
                    ELSE UnifyTrailLoop(Bind(hp, d1, d2), Trail(tr, v), Tail(pdl),
                                        occurs, fuel - 1)
            ELSE IF SameFunctor(hp, d1, d2)
            THEN UnifyTrailLoop(hp, tr, ArgPairs(hp, d1, d2) \o Tail(pdl), occurs, fuel - 1)
            ELSE [heap |-> hp, trail |-> tr, fail |-> TRUE, diverged |-> FALSE]

UnifyTrail(hp, tr, a1, a2, occurs) ==
    UnifyTrailLoop(hp, tr, <<<<a1, a2>>>>, occurs, 4 * HLen(hp))

RECURSIVE UndoTrailKeepOldest(_, _, _)
\* The unwinding stops one record short of the length n.
UndoTrailKeepOldest(hp, tr, n) ==
    IF Len(tr) <= n + 1 THEN hp
    ELSE UndoTrailKeepOldest([hp EXCEPT ![tr[Len(tr)]] = HeapCell(tr[Len(tr)])],
                             SubSeq(tr, 1, Len(tr) - 1), n)

RECURSIVE UndoTrail(_, _, _)
\* Backtracking to the trail length n: the records above n are undone from the
\* most recent down, each resetting its cell to an unbound variable.
UndoTrail(hp, tr, n) ==
    IF Len(tr) <= n THEN hp
    ELSE UndoTrail([hp EXCEPT ![tr[Len(tr)]] = HeapCell(tr[Len(tr)])],
                   SubSeq(tr, 1, Len(tr) - 1), n)

\* X, Y and a spare variable; f(X, 1); f(2, Y); [a | X].
UnifyHeap ==
    [i \in 0..10 |->
        CASE i \in 0..2 -> HeapCell(i)
          [] i = 3 -> NamedStr(2, "f")
          [] i = 4 -> HeapCell(0)
          [] i = 5 -> ConInteger(1)
          [] i = 6 -> NamedStr(2, "f")
          [] i = 7 -> ConInteger(2)
          [] i = 8 -> HeapCell(1)
          [] i = 9 -> ConAtom("a")
          [] OTHER -> HeapCell(0)]

UnifyTerms == {HeapCell(0), HeapCell(1), Str(3), Str(6), Lis(9)}

sysFrame == <<dq_atom, brent_st, max_steps, search_result, error, ledgerRest,
              ctrlVars, contVars, snapVars, dbVars>>

UnifyInit ==
    /\ heap = UnifyHeap
    /\ regs = <<HeapCell(0), HeapCell(0)>>
    /\ fail = FALSE
    /\ pc = "unify"
    /\ dq_atom = FALSE
    /\ brent_st = BrentAlgStateNew(ConEmptyList)
    /\ max_steps = -1
    /\ search_result = None
    /\ error = "none"
    /\ attr_var_queue = <<>>
    /\ attribute_goals = <<>>
    /\ delim = -1
    /\ enqueued = <<>>
    /\ last_call = [op |-> "none"]
    /\ ExtIdle

\* unify(a1, a2), or unify_with_occurs_check(a1, a2), on the registers given.
UnifyCall(a1, a2, occurs) ==
    /\ pc = "unify"
    /\ ~fail
    /\ regs' = <<a1, a2>>
    /\ LET u == UnifyTrail(heap, trail, a1, a2, occurs)
       IN /\ heap' = u.heap
          /\ trail' = u.trail
          /\ fail' = u.fail
          /\ pc' = IF u.diverged THEN "diverged" ELSE pc
    /\ last_call' = [op |-> IF occurs THEN "UnifyWithOccursCheck" ELSE "Unify",
                     a1 |-> a1, a2 |-> a2]
    /\ UNCHANGED <<saved, current_input_stream, current_output_stream, call_policy,
                   sysFrame>>

Unification == \E a1, a2 \in UnifyTerms : UnifyCall(a1, a2, FALSE)

UnifyWithOccursCheck == \E a1, a2 \in UnifyTerms : UnifyCall(a1, a2, TRUE)

\* A choice point is pushed: it records the trail length.
SaveTrail ==
    /\ pc = "unify"
    /\ ~fail
    /\ saved = NotSaved
    /\ saved' = [heap |-> heap, tr |-> Len(trail)]
    /\ last_call' = [op |-> "SaveTrail"]
    /\ UNCHANGED <<heap, regs, fail, pc, trail, current_input_stream,
                   current_output_stream, call_policy, sysFrame>>

\* Backtracking to the choice point: the trail is unwound to the length saved.
BacktrackTrail ==
    /\ pc = "unify"
    /\ saved # NotSaved
    /\ heap' = UndoTrail(heap, trail, saved.tr)
    /\ trail' = SubSeq(trail, 1, saved.tr)
    /\ fail' = FALSE
    /\ last_call' = [op |-> "BacktrackTrail"]
    /\ UNCHANGED <<regs, pc, saved, current_input_stream, current_output_stream,
                   call_policy, sysFrame>>

UnifyNext ==
    \/ Unification
    \/ UnifyWithOccursCheck
    \/ SaveTrail
    \/ BacktrackTrail

UnifySpec == UnifyInit /\ [][UnifyNext]_vars

\* ------------------------------------------------------------------ attributed binding
\* The attributes each attributed variable may carry, and the links made.
MaxAttrs == 2
MaxLinks == 2

\* The attributed variables V and W with their attribute-list cells.
VAttr == Root
WAttr == 2 * MaxAttrs + 2
PlainVar == 4 * MaxAttrs + 4
ViaW == 4 * MaxAttrs + 5

\* An attributed variable at v with n attributes: the variable, the cell of its
\* attribute list, and n list cells, the last tail open or closed.
AttrVarCell(v, n, closed, i) ==
    IF i = v THEN AttrVar(v)
    ELSE IF (i - v) % 2 = 1
    THEN (IF i - v < 2 * n THEN Lis(i + 1)
          ELSE IF i - v = 2 * n + 1 /\ ~closed THEN HeapCell(i)
          ELSE ConEmptyList)
    ELSE IF i - v <= 2 * n THEN ConAtom(IF v = VAttr THEN "a" ELSE "b")
    ELSE ConEmptyList

AttrHeap(nv, nw, closed) ==
    [i \in 0..ViaW |->
        IF i < WAttr THEN AttrVarCell(VAttr, nv, FALSE, i)
        ELSE IF i < PlainVar THEN AttrVarCell(WAttr, nw, closed, i)
        ELSE IF i = PlainVar THEN HeapCell(PlainVar)
        ELSE HeapCell(WAttr)]

AttrVarArgs == {HeapCell(VAttr), HeapCell(WAttr)}
AttrValueArgs ==
    {HeapCell(VAttr), HeapCell(WAttr), HeapCell(ViaW), HeapCell(PlainVar), ConAtom("c")}

AttrInit ==
    /\ \E nv, nw \in 0..MaxAttrs : \E closed \in BOOLEAN :
         heap = AttrHeap(nv, nw, closed)
    /\ regs = <<HeapCell(VAttr), HeapCell(VAttr)>>
    /\ fail = FALSE
    /\ pc = "attr"
    /\ dq_atom = FALSE
    /\ brent_st = BrentAlgStateNew(ConEmptyList)
    /\ max_steps = -1
    /\ search_result = None
    /\ error = "none"
    /\ attr_var_queue = <<>>
    /\ attribute_goals = <<>>
    /\ delim = -1
    /\ enqueued = <<>>
    /\ last_call = [op |-> "none"]
    /\ ExtIdle

RECURSIVE AttrListEnd(_, _, _)
\* The loop "while let Addr::Lis(l1) = store(deref(heap[l].as_addr(l)))": the
\* cell at which the attribute list from l stops, -1 if it never does.
AttrListEnd(hp, l, fuel) ==
    IF fuel = 0 THEN -1
    ELSE LET d == StoreDeref(hp, AsAddr(hp, l))
         IN IF d.tag = "Lis" THEN AttrListEnd(hp, d.h + 1, fuel - 1) ELSE l

\* The link replaces the first attribute of the list rather than its end.
RedoAttrVarBindingReplace(hp, var, value) ==
    LET bound == [hp EXCEPT ![var.h] = value]
    IN [heap |-> [bound EXCEPT ![value.h + 1] = HeapCell(var.h + 1)],
        l |-> value.h + 1]

\* The heap after the binding of var to the attributed variable value, and the
\* cell linked, -1 if the walk to the end of the list does not end.
RedoAttrVarBindingLink(hp, var, value) ==
    LET bound == [hp EXCEPT ![var.h] = value]
        l == AttrListEnd(bound, value.h + 1, HLen(hp))
    IN [heap |-> IF l = -1 THEN bound ELSE [bound EXCEPT ![l] = HeapCell(var.h + 1)],
        l |-> l]

RedoAttrVarBinding ==
    /\ pc = "attr"
    /\ Len(trail) < MaxLinks
    /\ \E a1 \in AttrVarArgs, a2 \in AttrValueArgs :
         LET var == StoreDeref(heap, a1)
             value == StoreDeref(heap, a2)
         IN /\ regs' = <<a1, a2>>
            /\ last_call' = [op |-> "RedoAttrVarBinding", var |-> var, value |-> value]
            /\ IF var.tag = "AttrVar"
               THEN IF value.tag = "AttrVar"
                    THEN LET r == RedoAttrVarBindingLink(heap, var, value)
                         IN /\ heap' = r.heap
                            /\ IF r.l = -1
                               THEN pc' = "diverged" /\ UNCHANGED trail
                               ELSE /\ trail' = Trail(trail, HeapCell(r.l))
                                    /\ UNCHANGED pc
                    ELSE /\ heap' = [heap EXCEPT ![var.h] = value]
                         /\ UNCHANGED <<pc, trail>>
               ELSE /\ pc' = "panic"
                    /\ UNCHANGED <<heap, trail>>
    /\ UNCHANGED <<fail, saved, current_input_stream, current_output_stream,
                   call_policy, sysFrame>>

AttrBindNext == RedoAttrVarBinding

AttrBindSpec == AttrInit /\ [][AttrBindNext]_vars

\* ------------------------------------------------------------------ attribute deletion
\* The records of the trail for a link of an attribute list.
AttrVarHeapLink(h) == [kind |-> "AttrVarHeapLink", h |-> h]
AttrVarListLink(h, l) == [kind |-> "AttrVarListLink", h |-> h, l |-> l]

\* The tail of the removed element is written as it is found.
UnlinkedTailAsFound(hp, cell, l) == StoreDeref(hp, HeapCell(l + 1))

\* What is written over the link at cell when the element at l is unlinked:
\* the tail of the element, the cell itself if that tail is unbound.
UnlinkedTail(hp, cell, l) ==
    LET tail == StoreDeref(hp, HeapCell(l + 1))
    IN IF IsRef(tail) THEN HeapCell(cell) ELSE tail

\* The attributed variables with open attribute lists, apart or with V bound
\* to W by RedoAttrVarBinding, the list of W going on into that of V.
AttrDeleteHeaps ==
    LET apart == {AttrHeap(nv, nw, FALSE) : nv, nw \in 0..MaxAttrs}
    IN apart \cup {RedoAttrVarBindingLink(hp, AttrVar(VAttr), AttrVar(WAttr)).heap :
                      hp \in apart}

AttrDeleteInit ==
    /\ heap \in AttrDeleteHeaps
    /\ regs = <<HeapCell(VAttr), HeapCell(VAttr)>>
    /\ fail = FALSE
    /\ pc = "attr"
    /\ dq_atom = FALSE
    /\ brent_st = BrentAlgStateNew(ConEmptyList)
    /\ max_steps = -1
    /\ search_result = None
    /\ error = "none"
    /\ attr_var_queue = <<>>
    /\ attribute_goals = <<>>
    /\ delim = -1
    /\ enqueued = <<>>
    /\ last_call = [op |-> "none"]
    /\ ExtIdle

\* The list cells of the attribute lists, and the cells that hold the lists.
AttrListArgs ==
    {Lis(i) : i \in {j \in DOMAIN heap : j < PlainVar /\ j % (2 * MaxAttrs + 2) >= 2
                                          /\ j % 2 = 0}}
        \cup {HeapCell(VAttr + 1), HeapCell(WAttr + 1), ConAtom("c")}

DeleteAttribute ==
    /\ pc = "attr"
    /\ Len(trail) < MaxLinks
    /\ \E a1 \in AttrListArgs :
         LET ls0 == StoreDeref(heap, a1)
             next == IF ls0.tag = "Lis"
                     THEN StoreDeref(heap, HeapCell(ls0.h + 1)) ELSE ls0
         IN /\ regs' = <<a1, a1>>
            /\ last_call' = [op |-> "DeleteAttribute", ls0 |-> ls0]
            /\ IF ls0.tag = "Lis" /\ next.tag = "Lis"
               THEN LET l1 == ls0.h
                        old_addr == AsAddr(heap, l1 + 1)
                        tail == UnlinkedTail(heap, l1 + 1, next.h)
                    IN IF old_addr.tag \in {"HeapCell", "Lis"}
                       THEN /\ heap' = [heap EXCEPT ![l1 + 1] = tail]
                            /\ trail' = Append(trail,
                                               IF old_addr.tag = "HeapCell"
                                               THEN AttrVarHeapLink(old_addr.h)
                                               ELSE AttrVarListLink(l1 + 1, old_addr.h))
                            /\ UNCHANGED pc
                       ELSE /\ pc' = "panic"
                            /\ UNCHANGED <<heap, trail>>
               ELSE UNCHANGED <<heap, trail, pc>>
    /\ UNCHANGED <<fail, saved, current_input_stream, current_output_stream,
                   call_policy, sysFrame>>

DeleteHeadAttribute ==
    /\ pc = "attr"
    /\ Len(trail) < MaxLinks
    /\ \E a1 \in AttrVarArgs \cup {HeapCell(PlainVar)} :
         LET addr == StoreDeref(heap, a1)
             list == IF addr.tag = "AttrVar"
                     THEN StoreDeref(heap, AsAddr(heap, addr.h + 1)) ELSE addr
         IN /\ regs' = <<a1, a1>>
            /\ last_call' = [op |-> "DeleteHeadAttribute", var |-> addr]
            /\ IF addr.tag = "AttrVar" /\ list.tag = "Lis"
               THEN /\ heap' = [heap EXCEPT ![addr.h + 1] =
                                    UnlinkedTail(heap, addr.h + 1, list.h)]
                    /\ trail' = Append(trail, AttrVarListLink(addr.h + 1, list.h))
                    /\ UNCHANGED pc
               ELSE /\ pc' = "panic"
                    /\ UNCHANGED <<heap, trail>>
    /\ UNCHANGED <<fail, saved, current_input_stream, current_output_stream,
                   call_policy, sysFrame>>

AttrDeleteNext ==
    \/ DeleteAttribute
    \/ DeleteHeadAttribute

AttrDeleteSpec == AttrDeleteInit /\ [][AttrDeleteNext]_vars

\* ------------------------------------------------------------------ streams
\* Addr::Stream
StreamAddr(s) == [tag |-> "StreamAddr", stream |-> s]

\* The streams open: the standard ones, two files read, two files written, a
\* socket open both ways.
Streams ==
    {Stdin, Stdout, Stream("socket", TRUE, TRUE)}
    \cup {Stream(f, TRUE, FALSE) : f \in {"in.txt", "in2.txt"}}
    \cup {Stream(f, FALSE, TRUE) : f \in {"out.txt", "out2.txt"}}

\* indices.stream_aliases
StreamAliasNames == {"user_input", "user_output"}
StreamAliases == [a \in StreamAliasNames |-> IF a = "user_input" THEN Stdin ELSE Stdout]

\* No atom is looked up among the aliases.
GetStreamOrAliasNoAliases(addr) ==
    IF addr.tag = "Con" /\ addr.k = "Atom"
    THEN [stream |-> Stdin, error |-> "existence_error"]
    ELSE IF addr.tag = "StreamAddr" THEN [stream |-> addr.stream, error |-> "none"]
    ELSE [stream |-> Stdin, error |-> "domain_error"]

\* MachineState::get_stream_or_alias: the stream, or the error returned.
GetStreamOrAlias(addr) ==
    IF addr.tag = "Con" /\ addr.k = "Atom"
    THEN (IF addr.v \in DOMAIN StreamAliases
          THEN [stream |-> StreamAliases[addr.v], error |-> "none"]
          ELSE [stream |-> Stdin, error |-> "existence_error"])
    ELSE IF addr.tag = "StreamAddr" THEN [stream |-> addr.stream, error |-> "none"]
    ELSE [stream |-> Stdin, error |-> "domain_error"]

\* Stream::is_input_stream, Stream::is_output_stream
IsInputStream(s) == s.input
IsOutputStream(s) == s.output

\* Cell 0 is an unbound variable, cell 1 is bound to the standard output.
StreamHeap == [i \in 0..1 |-> IF i = 0 THEN HeapCell(0) ELSE StreamAddr(Stdout)]

StreamArgs ==
    {StreamAddr(s) : s \in Streams}
    \cup {ConAtom(a) : a \in StreamAliasNames \cup {"foo"}}
    \cup {HeapCell(0), HeapCell(1), ConInteger(1)}

streamFrame == <<heap, fail, pc, dq_atom, brent_st, max_steps, search_result,
                 ledgerRest, ctrlVars, contVars, snapVars, trail, saved, call_policy,
                 dbVars>>

StreamInit ==
    /\ heap = StreamHeap
    /\ regs = <<HeapCell(0)>>
    /\ fail = FALSE
    /\ pc = "stream"
    /\ dq_atom = FALSE
    /\ brent_st = BrentAlgStateNew(ConEmptyList)
    /\ max_steps = -1
    /\ search_result = None
    /\ error = "none"
    /\ attr_var_queue = <<>>
    /\ attribute_goals = <<>>
    /\ delim = -1
    /\ enqueued = <<>>
    /\ last_call = [op |-> "none"]
    /\ ExtIdle

SetInput ==
    /\ pc = "stream"
    /\ \E a \in StreamArgs :
         LET addr == StoreDeref(heap, a)
             r == GetStreamOrAlias(addr)
         IN /\ regs' = <<a>>
            /\ last_call' = [op |-> "SetInput", addr |-> addr]
            /\ IF r.error # "none"
               THEN error' = r.error /\ UNCHANGED current_input_stream
               ELSE IF IsOutputStream(r.stream)
               THEN error' = "permission_error" /\ UNCHANGED current_input_stream
               ELSE error' = "none" /\ current_input_stream' = r.stream
    /\ UNCHANGED <<current_output_stream, streamFrame>>

SetOutput ==
    /\ pc = "stream"
    /\ \E a \in StreamArgs :
         LET addr == StoreDeref(heap, a)
             r == GetStreamOrAlias(addr)
         IN /\ regs' = <<a>>
            /\ last_call' = [op |-> "SetOutput", addr |-> addr]
            /\ IF r.error # "none"
               THEN error' = r.error /\ UNCHANGED current_output_stream
               ELSE IF IsInputStream(r.stream)
               THEN error' = "permission_error" /\ UNCHANGED current_output_stream
               ELSE error' = "none" /\ current_output_stream' = r.stream
    /\ UNCHANGED <<current_input_stream, streamFrame>>

StreamNext == SetInput \/ SetOutput

StreamSpec == StreamInit /\ [][StreamNext]_vars

\* ------------------------------------------------------------------ character codes
\* The longest list of codes.
MaxCodes == 2

ConChar(c) == [tag |-> "Con", k |-> "Char", v |-> c]
ConCharCode(c) == [tag |-> "Con", k |-> "CharCode", v |-> c]

\* Integer::to_u32 is Some.  Every integer of the model is below 2^32, so only
\* the sign decides.
FitsU32(v) == v >= 0

\* std::char::from_u32 is Some: a Unicode scalar value, no surrogate and not
\* above 0x10FFFF.
FromU32(c) == c >= 0 /\ c <= 1114111 /\ ~(c >= 55296 /\ c <= 57343)

\* The letter a, the surrogate 0xD800, 0x110000 and a negative integer.
Codes == {97, 55296, 1114112, -1}

RECURSIVE ListEnd(_, _, _)
\* What the list at a ends in.
ListEnd(hp, a, fuel) ==
    LET d == StoreDeref(hp, a)
    IN IF d.tag = "Lis" /\ fuel > 0 THEN ListEnd(hp, HeapCell(d.h + 1), fuel - 1) ELSE d

\* MachineState::try_from_list: the elements of a proper list, or an error.
TryFromList(hp, a) ==
    LET end == ListEnd(hp, a, HLen(hp))
    IN IF end = ConEmptyList
       THEN [error |-> "none",
             addrs |-> [i \in 1..Len(ListToSeq(hp, a)) |->
                          StoreDeref(hp, ListToSeq(hp, a)[i])]]
       ELSE [error |-> IF IsRef(end) THEN "instantiation_error" ELSE "type_error",
             addrs |-> <<>>]

RECURSIVE CodesToChars(_, _)
\* The loop over the codes in AtomCodes: the characters collected, or how the
\* loop was left.
CodesToChars(addrs, chars) ==
    IF addrs = <<>> THEN [outcome |-> "none", chars |-> chars]
    ELSE LET a == Head(addrs)
         IN IF IsInteger(a)
            THEN (IF ~FitsU32(a.v) THEN [outcome |-> "representation_error", chars |-> chars]
                  ELSE IF ~FromU32(a.v) THEN [outcome |-> "panic", chars |-> chars]
                  ELSE CodesToChars(Tail(addrs), Append(chars, a.v)))
            ELSE IF a.tag = "Con" /\ a.k = "CharCode"
            THEN (IF ~FromU32(a.v) THEN [outcome |-> "panic", chars |-> chars]
                  ELSE CodesToChars(Tail(addrs), Append(chars, a.v)))
            ELSE [outcome |-> "type_error", chars |-> chars]

\* Cells 0 and 1 are unbound variables; from cell 2 a list of the items, ending
\* in the empty list or in an unbound variable.
CodesHeap(items, closed) ==
    [i \in 0..(2 * MaxCodes + 2) |->
        IF i < 2 THEN HeapCell(i)
        ELSE IF i % 2 = 0
        THEN (IF i - 2 < 2 * Len(items) THEN Lis(i + 1)
              ELSE IF closed THEN ConEmptyList
              ELSE HeapCell(i))
        ELSE IF i - 1 <= 2 * Len(items) THEN items[(i - 1) \div 2]
        ELSE ConAtom("unused")]

CodeItems == {ConInteger(c) : c \in Codes} \cup {ConCharCode(97), ConAtom("x")}

\* The first arguments: an unbound variable, a character, the atoms ab and '',
\* the empty list, and an integer.
CodeSubjects ==
    {HeapCell(0), ConChar(97), ConAtom(<<97, 98>>), ConAtom(<<>>), ConEmptyList,
     ConInteger(1)}

CodeInit ==
    /\ \E n \in 0..MaxCodes : \E items \in [1..n -> CodeItems] : \E closed \in BOOLEAN :
         heap = CodesHeap(items, closed)
    /\ regs = <<HeapCell(0), HeapCell(1)>>
    /\ fail = FALSE
    /\ pc = "codes"
    /\ dq_atom = FALSE
    /\ brent_st = BrentAlgStateNew(ConEmptyList)
    /\ max_steps = -1
    /\ search_result = None
    /\ error = "none"
    /\ attr_var_queue = <<>>
    /\ attribute_goals = <<>>
    /\ delim = -1
    /\ enqueued = <<>>
    /\ last_call = [op |-> "none"]
    /\ ExtIdle

codeFrame == <<dq_atom, brent_st, max_steps, search_result, ledgerRest,
               ctrlVars, contVars, snapVars, sysVars>>

\* The built-in ends: with the store u left by a unification, with an error,
\* or in an abort.
CodeReturn(u, err, abort) ==
    /\ heap' = u.heap
    /\ fail' = u.fail
    /\ error' = err
    /\ pc' = IF abort THEN "panic" ELSE "done"

\* The cells as a list on top of the heap, unified with the second argument
\* (which the model leaves unbound here, never a string).
CodeList(hp, cells) == Unify(HeapToList(hp, cells).heap, regs'[2], HeapCell(HLen(hp)))

\* The store when the built-in returns before any unification.
NoBinding(hp) == [heap |-> hp, fail |-> FALSE]

AtomCodes ==
    /\ pc = "codes"
    /\ \E a1 \in CodeSubjects :
         LET d == StoreDeref(heap, a1)
         IN /\ regs' = <<a1, IF IsRef(d) THEN HeapCell(2) ELSE HeapCell(1)>>
            /\ last_call' = [op |-> "AtomCodes", a1 |-> d]
            /\ IF d.tag = "Con" /\ d.k = "Char"
               THEN CodeReturn(CodeList(heap, <<ConCharCode(d.v)>>), "none", FALSE)
               ELSE IF d.tag = "Con" /\ d.k = "Atom"
               THEN CodeReturn(CodeList(heap, [i \in 1..Len(d.v) |-> ConCharCode(d.v[i])]),
                               "none", FALSE)
               ELSE IF d = ConEmptyList
               THEN CodeReturn(CodeList(heap, <<ConCharCode(91), ConCharCode(93)>>),
                               "none", FALSE)
               ELSE IF IsRef(d)
               THEN LET l == TryFromList(heap, regs'[2])
                        c == CodesToChars(l.addrs, <<>>)
                    IN IF l.error # "none"
                       THEN CodeReturn(NoBinding(heap), l.error, FALSE)
                       ELSE IF c.outcome = "panic"
                       THEN CodeReturn(NoBinding(heap), "none", TRUE)
                       ELSE IF c.outcome # "none"
                       THEN CodeReturn(NoBinding(heap), c.outcome, FALSE)
                       ELSE CodeReturn(Unify(heap, d, ConAtom(c.chars)), "none", FALSE)
               ELSE CodeReturn(NoBinding(heap), "none", TRUE)
    /\ UNCHANGED codeFrame

CodeObjects ==
    {ConInteger(c) : c \in Codes} \cup {ConCharCode(97), ConAtom("x"), HeapCell(1)}

CharCode ==
    /\ pc = "codes"
    /\ \E a1 \in CodeSubjects, a2 \in CodeObjects :
         LET d == StoreDeref(heap, a1)
             v == StoreDeref(heap, a2)
         IN /\ regs' = <<a1, a2>>
            /\ last_call' = [op |-> "CharCode", a1 |-> d]
            /\ IF d.tag = "Con" /\ d.k = "Atom"
               THEN (IF d.v = <<>>
                     THEN CodeReturn(NoBinding(heap), "none", TRUE)
                     ELSE CodeReturn(Unify(heap, ConInteger(d.v[1]), a2), "none", FALSE))
               ELSE IF d.tag = "Con" /\ d.k = "Char"
               THEN CodeReturn(Unify(heap, ConInteger(d.v), a2), "none", FALSE)
               ELSE IF IsRef(d)
               THEN (IF v.tag = "Con" /\ v.k = "CharCode"
                     THEN (IF FromU32(v.v)
                           THEN CodeReturn(Unify(heap, ConChar(v.v), d), "none", FALSE)
                           ELSE CodeReturn([heap |-> heap, fail |-> TRUE], "none", FALSE))
                     ELSE IF IsInteger(v)
                     THEN (IF ~FitsU32(v.v)
                           THEN CodeReturn(NoBinding(heap), "representation_error", FALSE)
                           ELSE IF FromU32(v.v)
                           THEN CodeReturn(Unify(heap, ConChar(v.v), d), "none", FALSE)
                           ELSE CodeReturn([heap |-> heap, fail |-> TRUE], "none", FALSE))
                     ELSE CodeReturn([heap |-> heap, fail |-> TRUE], "none", FALSE))
               ELSE CodeReturn(NoBinding(heap), "none", TRUE)
    /\ UNCHANGED codeFrame

CodeNext == AtomCodes \/ CharCode

CodeSpec == CodeInit /\ [][CodeNext]_vars

\* ------------------------------------------------------------------ inference limits
\* The limits registered at once, and the inferences counted.
MaxLimits == 2
MaxInferences == 2

\* CWILCallPolicy::new_in_place: the inference-limit policy around the present one.
CWILCallPolicy == [kind |-> "CWIL", count |-> 0, limits |-> <<>>]

\* CWILCallPolicy::add_limit: the limit, counted from the inferences made so
\* far, is pushed with its barrier.
AddLimit(cp, n, bp) ==
    [cp EXCEPT !.limits = Append(cp.limits, [limit |-> cp.count + n, bp |-> bp])]

\* The most recent limit is popped whatever its barrier.
RemoveLimitAny(cp, bp) ==
    IF cp.limits # <<>>
    THEN [cp EXCEPT !.limits = SubSeq(cp.limits, 1, Len(cp.limits) - 1)]
    ELSE cp

\* CWILCallPolicy::remove_limit: the most recent limit is popped if it is the
\* one pushed with the barrier bp.
RemoveLimit(cp, bp) ==
    IF cp.limits # <<>> /\ cp.limits[Len(cp.limits)].bp = bp
    THEN [cp EXCEPT !.limits = SubSeq(cp.limits, 1, Len(cp.limits) - 1)]
    ELSE cp

BarrierValues == {ConUsize(0), ConUsize(1), ConCutPoint(1), ConAtom("x")}
LimitValues == {ConInteger(1), ConInteger(2), ConAtom("x")}

limitFrame == <<regs, dq_atom, brent_st, max_steps, search_result, ledgerRest, block, stack, cut_policy, cont_pts,
                contVars, snapVars, trail, saved, current_input_stream,
                current_output_stream, dbVars>>

LimitInit ==
    /\ heap = CtrlHeap
    /\ regs = <<OutVar, OutVar, OutVar, OutVar>>
    /\ fail = FALSE
    /\ pc = "limits"
    /\ dq_atom = FALSE
    /\ brent_st = BrentAlgStateNew(ConEmptyList)
    /\ max_steps = -1
    /\ search_result = None
    /\ error = "none"
    /\ attr_var_queue = <<>>
    /\ attribute_goals = <<>>
    /\ delim = -1
    /\ enqueued = <<>>
    /\ last_call = [op |-> "none"]
    /\ b_reg \in 0..1
    /\ block = 0
    /\ stack = [i \in 0..MaxOr |-> 0]
    /\ cut_policy = "Default"
    /\ cont_pts = <<>>
    /\ ContIdle
    /\ SnapIdle
    /\ SysIdle

InstallInferenceCounter ==
    /\ pc = "limits"
    /\ Len(call_policy.limits) < MaxLimits
    /\ \E a1 \in BarrierValues, a2 \in LimitValues :
         LET installed == IF call_policy.kind # "CWIL" THEN CWILCallPolicy ELSE call_policy
         IN /\ last_call' = [op |-> "InstallInferenceCounter", a1 |-> a1, a2 |-> a2]
            /\ IF IsBarrier(a1) /\ IsInteger(a2)
               THEN LET u == Unify(Renewed(heap), OutVar, ConInteger(installed.count))
                    IN /\ call_policy' = AddLimit(installed, a2.v, a1.v)
                       /\ heap' = u.heap
                       /\ fail' = u.fail
                       /\ error' = "none"
               ELSE /\ call_policy' = installed
                    /\ error' = "type_error"
                    /\ UNCHANGED <<heap, fail>>
    /\ UNCHANGED <<pc, b_reg, limitFrame>>

\* The default policy is put back as soon as b is the barrier given.
RemoveCallPolicyCheckUnchecked ==
    /\ pc = "limits"
    /\ \E a1 \in BarrierValues :
         /\ last_call' = [op |-> "RemoveCallPolicyCheck", a1 |-> a1]
         /\ IF call_policy.kind = "CWIL" /\ IsBarrier(a1)
            THEN /\ call_policy' = IF a1.v = b_reg THEN DefaultCallPolicy ELSE call_policy
                 /\ UNCHANGED pc
            ELSE /\ pc' = "panic"
                 /\ UNCHANGED call_policy
    /\ UNCHANGED <<heap, fail, error, b_reg, limitFrame>>

RemoveCallPolicyCheck ==
    /\ pc = "limits"
    /\ \E a1 \in BarrierValues :
         /\ last_call' = [op |-> "RemoveCallPolicyCheck", a1 |-> a1]
         /\ IF call_policy.kind = "CWIL" /\ IsBarrier(a1)
            THEN /\ call_policy' = IF call_policy.limits = <<>> /\ a1.v = b_reg
                                   THEN DefaultCallPolicy
                                   ELSE call_policy
                 /\ UNCHANGED pc
            ELSE /\ pc' = "panic"
                 /\ UNCHANGED call_policy
    /\ UNCHANGED <<heap, fail, error, b_reg, limitFrame>>

RemoveInferenceCounter ==
    /\ pc = "limits"
    /\ \E a1 \in BarrierValues :
         /\ last_call' = [op |-> "RemoveInferenceCounter", a1 |-> a1]
         /\ IF call_policy.kind = "CWIL" /\ IsBarrier(a1)
            THEN LET u == Unify(Renewed(heap), OutVar, ConInteger(call_policy.count))
                 IN /\ call_policy' = RemoveLimit(call_policy, a1.v)
                    /\ heap' = u.heap
                    /\ fail' = u.fail
                    /\ UNCHANGED pc
            ELSE /\ pc' = "panic"
                 /\ UNCHANGED <<heap, fail, call_policy>>
    /\ UNCHANGED <<error, b_reg, limitFrame>>

\* The installed policy counts a call.
CountInference ==
    /\ pc = "limits"
    /\ call_policy.kind = "CWIL"
    /\ call_policy.count < MaxInferences
    /\ call_policy' = [call_policy EXCEPT !.count = call_policy.count + 1]
    /\ last_call' = [op |-> "CountInference"]
    /\ UNCHANGED <<heap, fail, error, pc, b_reg, limitFrame>>

LimitNext ==
    \/ InstallInferenceCounter
    \/ RemoveCallPolicyCheck
    \/ RemoveInferenceCounter
    \/ CountInference

LimitSpec == LimitInit /\ [][LimitNext]_vars

\* ------------------------------------------------------------------ reference
RECURSIVE Shape(_, _, _, _)
\* What a value is, found by following tails and remembering every cell seen:
\* the number of list cells before the end and how the list ends.
Shape(hp, a, seen, n) ==
    LET d == StoreDeref(hp, a)
    IN IF d = ConEmptyList THEN [end |-> "nil", len |-> n]
       ELSE IF IsRef(d) THEN [end |-> "var", len |-> n, at |-> d]
       ELSE IF d.tag = "Lis"
       THEN (IF d.h \in seen THEN [end |-> "cycle", len |-> n]
             ELSE Shape(hp, HeapCell(d.h + 1), seen \cup {d.h}, n + 1))
       ELSE IF IsString(d) THEN [end |-> "string", len |-> n]
       ELSE IF d.tag = "PStrLocation" THEN [end |-> "pstr", len |-> n]
       ELSE [end |-> "other", len |-> n]

RootShape == Shape(heap, HeapCell(Root), {}, 0)

\* The position one element further on, None at an end.
RefNext(hp, dqAtom, a) ==
    LET d == StoreDeref(hp, a)
    IN IF d.tag = "Lis" THEN HeapCell(d.h + 1)
       ELSE IF IsString(d) /\ ~dqAtom /\ CharAt(d.s, d.n) > 0
       THEN ConString(d.n + CharAt(d.s, d.n), d.s)
       ELSE IF d.tag = "PStrLocation"
       THEN PStrLocation(d.h, d.n + CharAt(hp[d.h].s, d.n))
       ELSE None

RECURSIVE RefAdvance(_, _, _, _)
\* The position k elements further on, None if the value ends before.
RefAdvance(hp, dqAtom, a, k) ==
    IF k = 0 \/ a = None THEN a
    ELSE RefAdvance(hp, dqAtom, RefNext(hp, dqAtom, a), k - 1)

Unbounded == max_steps = -1 /\ (pc \in {"detect_cycles", "panic"} \/ search_result # None)
Budgeted == max_steps >= 0
Walked == pc = "done" /\ search_result # None

\* ------------------------------------------------------------------ claims

\* C1: the unbounded walk over an acyclic list of N >= 1 cells that ends in the
\* empty list returns ProperList(N), over the empty list EmptyList; never NotList.
C1_ProperListLength ==
    (Walked /\ Unbounded /\ RootShape.end = "nil")
        => search_result = IF RootShape.len = 0 THEN EmptyList
                           ELSE ProperList(RootShape.len)

C1_Witness ==
    /\ Walked /\ Unbounded
    /\ RootShape.end = "nil" /\ RootShape.len >= 2
    /\ search_result = ProperList(RootShape.len)

\* C2: over a list of N cells whose last tail points K cells back, the
\* unbounded walk takes at most 3N steps, is never cut off, and returns NotList.
C2_CycleFoundInLinearSteps ==
    (Unbounded /\ RootShape.end = "cycle")
        => /\ brent_st.steps <= 3 * RootShape.len
           /\ pc = "detect_cycles" => brent_st.steps < 3 * RootShape.len
           /\ pc # "panic"
           /\ pc = "done" => search_result = NotList

C2_Witness ==
    /\ Walked /\ Unbounded
    /\ RootShape.end = "cycle" /\ RootShape.len >= 2
    /\ search_result = NotList
    /\ brent_st.steps > RootShape.len

\* The list of three cells whose third tail points to the first.
ThreeCellCycle ==
    /\ RootShape = [end |-> "cycle", len |-> 3]
    /\ heap[CellTail(3)] = Lis(CellHead(1))

\* C3 as stated: the cycle of three cells is reported with a step count of at
\* most 6.
C3_Original ==
    (Walked /\ Unbounded /\ ThreeCellCycle)
        => search_result = NotList /\ brent_st.steps <= 6

\* C3 as amended: the cycle of three cells is reported as NotList with a step
\* count of 7, and the walk never counts more than 7 steps.
C3_ThreeCellCycleSevenSteps ==
    (Unbounded /\ ThreeCellCycle)
        => /\ brent_st.steps <= 7
           /\ pc # "panic"
           /\ pc = "done" => search_result = NotList /\ brent_st.steps = 7

C3_Witness ==
    Walked /\ Unbounded /\ ThreeCellCycle /\ search_result = NotList /\ brent_st.steps = 7

\* The list [1,2,3|T], T unbound, walked with budget 2.
OneTwoThreeT ==
    /\ RootShape = [end |-> "var", len |-> 3, at |-> HeapCell(CellTail(3))]
    /\ \A j \in 1..3 : heap[CellHead(j)] = ConInteger(j)
    /\ max_steps = 2

\* C4 as stated: [1,2,3|T] with budget 2 gives a partial list, 2 steps, and T
\* as the remaining address.
C4_Original ==
    (Walked /\ OneTwoThreeT)
        => /\ search_result.tag = "PartialList"
           /\ search_result.steps = 2
           /\ StoreDeref(heap, search_result.r) = HeapCell(CellTail(3))

\* C4 as amended: [1,2,3|T] with budget 2 gives a partial list, 2 steps, and
\* as remaining address the tail cell of the second list cell, which holds the
\* list [3|T].
C4_BudgetTwoStopsAtSecondTail ==
    (Walked /\ OneTwoThreeT)
        => /\ search_result = PartialList(2, HeapCell(CellTail(2)))
           /\ StoreDeref(heap, search_result.r) = Lis(CellHead(3))
           /\ heap[CellTail(3)] = HeapCell(CellTail(3))

C4_Witness ==
    Walked /\ OneTwoThreeT /\ search_result = PartialList(2, HeapCell(CellTail(2)))

\* The term an address stands for: a string at its end is the empty list.
Norm(hp, a) ==
    LET d == StoreDeref(hp, a)
    IN IF IsString(d) /\ CharAt(d.s, d.n) = 0 THEN ConEmptyList ELSE d

\* C5: a walk with budget B never reports more than B steps; when the value
\* has B elements to walk and no cycle, the walk reports exactly B steps and
\* the position B elements on.
C5_BudgetRespected ==
    (Walked /\ Budgeted)
        => /\ ResultCount(search_result) <= max_steps
           /\ (/\ RootShape.end # "cycle"
               /\ RefAdvance(heap, dq_atom, HeapCell(Root), max_steps) # None)
              => /\ ResultCount(search_result) = max_steps
                 /\ Norm(heap, ResultAddr(search_result, HeapCell(Root)))
                      = Norm(heap, RefAdvance(heap, dq_atom, HeapCell(Root), max_steps))

\* The classification of a result (the result without its step count).
Class(res) == IF "steps" \in DOMAIN res THEN [res EXCEPT !.steps = 0] ELSE res
StepsOf(res) == IF "steps" \in DOMAIN res THEN res.steps ELSE 0

\* The first walk, with budget b, and the walk resumed with the rest of the
\* budget from the position the first one reported.
FirstWalk(b) == DetectCyclesWithMax(heap, dq_atom, b, HeapCell(Root))
ResumedWalk(total, b) ==
    DetectCyclesWithMax(heap, dq_atom, total - b,
                        ResultAddr(FirstWalk(b), HeapCell(Root)))

\* The split walk and the single walk end in the same result variant at the
\* same position, and the step counts add up.
SameResult(total, b) ==
    /\ Class(ResumedWalk(total, b)) = Class(search_result)
    /\ "steps" \in DOMAIN search_result
          => StepsOf(FirstWalk(b)) + StepsOf(ResumedWalk(total, b)) = search_result.steps

\* The split walk and the single walk give skip_max_list the same total count
\* and the same remaining term.
SameCountAndRemainder(total, b) ==
    /\ ResultCount(FirstWalk(b)) + ResultCount(ResumedWalk(total, b))
          = ResultCount(search_result)
    /\ Norm(heap, ResultAddr(ResumedWalk(total, b),
                             ResultAddr(FirstWalk(b), HeapCell(Root))))
          = Norm(heap, ResultAddr(search_result, HeapCell(Root)))

SplitAgrees(total, b) == SameResult(total, b) \/ SameCountAndRemainder(total, b)

\* C6: for any list-like value and any 0 <= B <= total for which the first walk
\* reports a position, the split walk agrees with the single walk.
C6_SplitWalkAgrees ==
    (Walked /\ Budgeted)
        => \A b \in 0..max_steps :
             FirstWalk(b) # NotList => SplitAgrees(max_steps, b)

\* What does hold: the split walk agrees on a list of list cells without a
\* cycle, that ends in the empty list, an unbound variable or a non-list constant.
SplitWalkAgreesOnAcyclicLists ==
    (Walked /\ Budgeted /\ RootShape.end \in {"nil", "var", "other"})
        => \A b \in 0..max_steps :
             FirstWalk(b) # NotList => SplitAgrees(max_steps, b)

\* C7: a walk over a string keeps the hare on character boundaries, and the
\* length reported for a complete string is its number of characters from the
\* offset it was entered at.
C7_StringStepsAreCharacters ==
    /\ (pc \in {"detect_cycles", "detect_cycles_with_max"} /\ IsString(brent_st.hare))
          => brent_st.hare.n \in Boundaries(brent_st.hare.s)
    /\ (Walked /\ Unbounded /\ IsString(heap[Root]) /\ ~dq_atom)
          => /\ search_result.tag = "CompleteString"
             /\ search_result.steps = Len(SliceFrom(heap[Root].s, heap[Root].n))

\* C8: a walk with budget 0 over a list cell, a string or a partial-string
\* location takes no step, and skip_max_list binds the count to 0 and the
\* remainder to the position it was given.
C8_BudgetZeroUntouched ==
    (/\ Walked /\ max_steps = 0 /\ regs[1] = HeapCell(NVar)
     /\ \/ heap[Root].tag \in {"Lis", "PStrLocation"}
        \/ IsString(heap[Root]) /\ ~dq_atom)
        => /\ brent_st.steps = 0
           /\ ~fail
           /\ StoreDeref(heap, HeapCell(NVar)) = ConInteger(0)
           /\ StoreDeref(heap, HeapCell(XsVar)) = StoreDeref(heap, HeapCell(Root))

\* C9: asking for the queue beyond the delimiter last read yields the empty
\* list right after the read, and after N calls of EnqueueAttributedVar on
\* attributed variables exactly those N variables in the order enqueued.
C9_QueueBeyondDelimiter ==
    (last_call.op = "GetAttrVarQueueBeyond" /\ delim >= 0 /\ last_call.b = delim)
        => /\ ~fail
           /\ ListToSeq(heap, last_call.out) = enqueued

C9_Witness ==
    /\ last_call.op = "GetAttrVarQueueBeyond" /\ delim = 0 /\ last_call.b = delim
    /\ enqueued = <<AttrVar(2), AttrVar(0)>>
    /\ ListToSeq(heap, last_call.out) = enqueued

\* The terms a sequence of addresses stands for.
TermsOf(hp, list) == {StoreDeref(hp, list[i]) : i \in 1..Len(list)}

\* C10: the list FetchAttributeGoals or CloneAttributeGoals returns is strictly
\* ascending in the order of terms and holds exactly the distinct pending goals.
C10_GoalsSortedAndDistinct ==
    (last_call.op \in {"FetchAttributeGoals", "CloneAttributeGoals"})
        => LET out == ListToSeq(heap, last_call.out)
           IN /\ ~fail
              /\ \A i \in 1..(Len(out) - 1) :
                    CompareTermTest(heap, out[i], out[i + 1]) < 0
              /\ TermsOf(heap, out) = TermsOf(heap, last_call.pending)

C10_Witness ==
    /\ last_call.op = "FetchAttributeGoals"
    /\ last_call.pending = <<ConAtom("a"), HeapCell(6), ConInteger(1)>>
    /\ Len(ListToSeq(heap, last_call.out)) = 2
    /\ attribute_goals = <<>>

\* C11: FetchAttributeGoals leaves no pending goal, so that a fetch right after
\* a fetch returns the empty list; CloneAttributeGoals leaves the pending goals
\* as they were; ClearAttributeGoals empties them and leaves the queue of
\* attributed variables as it was; so does GetAttrVarQueueBeyond.
C11_LedgerFrame ==
    [][/\ last_call'.op = "FetchAttributeGoals"
            => /\ attribute_goals' = <<>>
               /\ attr_var_queue' = attr_var_queue
               /\ last_call.op = "FetchAttributeGoals"
                     => ~fail' /\ ListToSeq(heap', last_call'.out) = <<>>
       /\ last_call'.op = "CloneAttributeGoals"
            => attribute_goals' = attribute_goals
       /\ last_call'.op = "ClearAttributeGoals"
            => attribute_goals' = <<>> /\ attr_var_queue' = attr_var_queue
       /\ last_call'.op = "GetAttrVarQueueBeyond"
            => attr_var_queue' = attr_var_queue /\ attribute_goals' = attribute_goals
      ]_vars

C11_Witness ==
    /\ last_call.op = "FetchAttributeGoals"
    /\ last_call.pending = <<>>
    /\ ListToSeq(heap, last_call.out) = <<>>
    /\ HLen(heap) = HLen(LedgerHeap) + 2 * MaxGoals + 4
    /\ Len(attr_var_queue) = MaxQueue

\* C12: CheckCutPoint sets the failure flag exactly when its argument is not a
\* barrier value or the choice point two links down the chain from the current
\* one is greater than the barrier; it changes neither b, block nor the chain.
C12_CheckCutPoint ==
    [][last_call'.op = "CheckCutPoint"
          => /\ fail' = (\/ ~IsBarrier(last_call'.arg)
                         \/ stack[stack[b_reg]] > last_call'.arg.v)
             /\ b_reg' = b_reg
             /\ block' = block
             /\ stack' = stack
             /\ cut_policy' = cut_policy
      ]_vars

C12_Witness ==
    /\ last_call.op = "CheckCutPoint"
    /\ last_call.arg = ConUsize(0)
    /\ stack[stack[b_reg]] = 1
    /\ fail

\* What InstallNewBlock and GetCurrentBlock do in a step.
BlockInstalledAndRead ==
    /\ last_call'.op = "InstallNewBlock"
          => /\ block' = b_reg
             /\ b_reg' = b_reg
             /\ ~fail'
             /\ StoreDeref(heap', last_call'.out) = ConUsize(b_reg)
    /\ last_call'.op = "GetCurrentBlock"
          => /\ block' = block
             /\ ~fail'
             /\ StoreDeref(heap', last_call'.out) = ConUsize(block)

C14_Original ==
    /\ cont_pts # <<>> => cut_policy = "SCC"
    /\ cont_pts = <<>> => cut_policy = "Default"

\* C14 as amended: the cut policy becomes SCC at InstallSCCCleaner and only
\* there, it is SCC whenever the tracking stack is not empty, and it goes back
\* to Default at a RestoreCutPolicy that finds the tracking stack empty, and
\* only there.
C14_CutPolicyLifecycle ==
    [][/\ last_call'.op = "InstallSCCCleaner" => cut_policy' = "SCC"
       /\ cont_pts' # <<>> => cut_policy' = "SCC"
       /\ (cut_policy = "Default" /\ cut_policy' = "SCC")
            => last_call'.op = "InstallSCCCleaner"
       /\ (cut_policy = "SCC" /\ cut_policy' = "Default")
            => last_call'.op = "RestoreCutPolicy" /\ cont_pts = <<>>
       /\ (last_call'.op = "RestoreCutPolicy" /\ cont_pts = <<>>)
            => cut_policy' = "Default"
      ]_vars

C14_Witness ==
    /\ last_call.op = "RestoreCutPolicy"
    /\ cut_policy = "Default"
    /\ cont_pts = <<>>
    /\ heap[0] = ConAtom("c1")

\* The frame the claim expects for the chunk at s of the heap hp: as many
\* cells as the chunk captured, equal to them in order, a cut point in
\* cell 1 replaced by the current b.
ExpectedCells(hp, s, bv) ==
    [i \in 1..(hp[s].arity - 1) |->
        IF i = 1 /\ hp[s + 2].tag = "Con" /\ hp[s + 2].k = "CutPoint"
        THEN ConCutPoint(bv)
        ELSE hp[s + 1 + i]]

\* C15: GetContinuationChunk on a frame with n permanent variables builds
\* a chunk of arity n + 1 that holds the code position and the n cells of
\* the frame; calling a captured chunk allocates a fresh frame of n cells
\* equal to the captured cells in order (a cut point in cell 1 replaced by
\* the current b), links it to the previous e with the given return
\* address as continuation, makes it the current environment and moves
\* control to the instruction after the captured code position. With a
\* list of chunks the last is called first and each earlier chunk returns
\* into the one called before it.
C15_CallContinuationChunk ==
    [][/\ (last_call'.op = "GetContinuationChunk" /\ ~fail') =>
            LET s == last_call'.s
                f == and_frames[last_call'.e]
                n == Len(f.cells)
            IN /\ heap'[s] = NamedStr(n + 1, "cont_chunk")
               /\ ToLocalCodePtr(heap'[s + 1]) = last_call'.p
               /\ PermVars(last_call'.p) = n
               /\ \A i \in 1..n : heap'[s + 1 + i] = f.cells[i]
               /\ StoreDeref(heap', last_call'.out) = Str(s)
       /\ (last_call'.op = "CallContinuation" /\ last_call'.chunks # <<>>) =>
            LET cs == last_call'.chunks
                k == Len(cs)
                At(j) == Len(and_frames) + (k - j + 1)
                S(j) == StoreDeref(heap, cs[j]).h
            IN /\ Len(and_frames') = Len(and_frames) + k
               /\ \A x \in 1..Len(and_frames) : and_frames'[x] = and_frames[x]
               /\ \A j \in 1..k :
                    /\ and_frames'[At(j)].cells = ExpectedCells(heap, S(j), b_reg)
                    /\ and_frames'[At(j)].e =
                         (IF j = k THEN e_reg ELSE At(j + 1))
                    /\ and_frames'[At(j)].cp =
                         (IF j = k THEN last_call'.return_p
                          ELSE ToLocalCodePtr(heap[S(j + 1) + 1]) + 1)
               /\ e_reg' = At(1)
               /\ p_reg' = ToLocalCodePtr(heap[S(1) + 1]) + 1]_vars

\* A chunk of two cells with a cut point in the first has been called
\* with another b than the captured one: the frame holds the current b.
C15_Witness ==
    /\ last_call.op = "CallContinuation"
    /\ Len(and_frames[e_reg].cells) = MaxPerm
    /\ and_frames[e_reg].cells[1] = ConCutPoint(b_reg)
    /\ b_reg # 0
    /\ and_frames[e_reg].e # 0
    /\ Len(last_call.chunks) > 1

\* The ball kept under a key, the machine's ball under BallKey.
BallOf(key) == IF key = BallKey THEN ball ELSE global_variables[key].ball

\* Whether every address among cells that are to stand at h points into them.
RefsInside(cells, h) ==
    \A i \in 1..Len(cells) :
        cells[i].tag \in {"HeapCell", "AttrVar", "Lis", "Str"} =>
            (h <= cells[i].h /\ cells[i].h < h + Len(cells))

\* C16: a term stored by StoreGlobalVar or SetBall and then copied and
\* aligned to the top of the heap by FetchGlobalVar or GetBall, wherever
\* the top is by then, has the shape of the term as it was stored, up to
\* the names of variables; every address of the relocated copy points
\* into the copy; and unifying the copy with the term, if it is still as
\* it was stored, succeeds.
C16_BallRoundTrip ==
    [][(last_call'.op \in {"FetchGlobalVar", "GetBall"} /\ ~fail') =>
          LET key == last_call'.key
              h == last_call'.h
              s == stored[key]
          IN /\ TermShape(heap', HeapCell(h)) = s.shape
             /\ RefsInside(CopyAndAlign(BallOf(key), h), h)
             /\ HLen(heap') = h + Len(BallOf(key).stub)
             /\ (OriginalsThere(heap) /\ TermShape(heap, s.src) = s.shape) =>
                   ~Unify(heap', HeapCell(h), s.src).fail]_vars

\* The list [X, a | X], stored above the place it is fetched to, has come
\* back: its copy stands below the boundary of its ball.
C16_Witness ==
    /\ last_call.op = "FetchGlobalVar"
    /\ ~fail
    /\ stored[last_call.key] # NotStored
    /\ stored[last_call.key].src = Lis(1)
    /\ last_call.h < global_variables[last_call.key].ball.boundary
    /\ heap[last_call.h].tag = "Lis"
    /\ heap[heap[last_call.h].h + 1] = Lis(heap[last_call.h].h + 2)

\* What FetchGlobalVar would return for an entry on the heap hp.
FetchedShape(hp, entry) ==
    LET h == HLen(hp)
    IN TermShape(HeapExtend(hp, CopyAndAlign(entry.ball, h)), HeapCell(h))

\* C17: what FetchGlobalVar returns for a key is, in every state, the term
\* as it was when StoreGlobalVar stored it: bindings of the term's
\* variables made since, and backtracking that undoes bindings or cuts
\* the term's cells off the heap, do not change it.
C17_SnapshotIndependent ==
    \A key \in Keys :
        global_variables[key] # NoEntry =>
            /\ stored[key] # NotStored
            /\ FetchedShape(heap, global_variables[key]) = stored[key].shape

\* [X, a | X] was stored with X unbound; X has been bound since, and
\* FetchGlobalVar has returned the list with its variable.
C17_Witness ==
    /\ last_call.op = "FetchGlobalVar"
    /\ ~fail
    /\ stored[last_call.key] # NotStored
    /\ stored[last_call.key].src = Lis(1)
    /\ OriginalsThere(heap)
    /\ heap[0] \in SnapBindings
    /\ stored[last_call.key].shape = <<"lis", <<"var", 1>>,
                                       <<"lis", <<"con", ConAtom("a")>>, <<"var", 1>>>>>>
    /\ TermShape(heap, last_call.out) = stored[last_call.key].shape

\* C18: FetchGlobalVar on a key fails exactly when the key was never stored
\* or was reset after its last store, and otherwise returns a copy of the
\* term stored last under the key; StoreGlobalVar, FetchGlobalVar and
\* ResetGlobalVarAtKey on one key change neither whether another key has
\* a value nor what is fetched for it.
C18_GlobalVarPerKey ==
    [][/\ (last_call'.op = "FetchGlobalVar") =>
            /\ fail' <=> (stored[last_call'.key] = NotStored)
            /\ ~fail' => TermShape(heap', last_call'.out) = stored[last_call'.key].shape
       /\ (last_call'.op \in {"StoreGlobalVar", "FetchGlobalVar", "ResetGlobalVarAtKey"}) =>
            \A k2 \in Keys \ {last_call'.key} :
                /\ (global_variables'[k2] = NoEntry) <=> (global_variables[k2] = NoEntry)
                /\ global_variables[k2] # NoEntry =>
                     FetchedShape(heap', global_variables'[k2]) =
                         FetchedShape(heap, global_variables[k2])]_vars

\* One key has been stored twice and fetched, the other reset: the fetch
\* gave the later term.
C18_Witness ==
    /\ last_call.op = "FetchGlobalVar"
    /\ ~fail
    /\ last_call.key = "k1"
    /\ global_variables["k2"] = NoEntry
    /\ stored["k1"] # NotStored
    /\ stored["k1"].src = Lis(5)
    /\ global_variables["k1"].ball.boundary > HLen(SnapHeap)

\* C19: solutions t1..tn copied by CopyToLiftedHeap at one offset, the top
\* of the lifted heap when the collection began, then closed by
\* TruncateIfNoLiftedHeapGrowth and retrieved by GetLiftedHeapFromOffset
\* at that offset, come back as the proper list of their copies in the
\* order they were copied, [] when there are none; and the lifted heap
\* is then cut back to the offset.
C19_FindallRoundTrip ==
    [][(/\ last_call'.op = "GetLiftedHeapFromOffset"
        /\ last_call'.closed) =>
           /\ pc' = "collected"
           /\ ~fail'
           /\ ListShapes(heap', last_call'.out, HLen(heap')) = stored.sols
           /\ Len(lifted_heap') = stored.base]_vars

\* Two different solutions came back in the order they went in, from a
\* collection that began above cells of an outer one.
C19_Witness ==
    /\ last_call.op = "GetLiftedHeapFromOffset"
    /\ pc = "collected"
    /\ ~fail
    /\ lifted_heap = OuterCells
    /\ last_call.o = ConUsize(Len(OuterCells))
    /\ last_call.closed
    /\ ListShapes(heap, last_call.out, HLen(heap)) =
          <<<<"con", ConAtom("a")>>, <<"lis", <<"con", ConAtom("a")>>, <<"var", 1>>>>>>

\* Whether lh1 has all the cells of lh0 below n as they were.
KeepsBelow(lh0, lh1, n) ==
    \A i \in 1..(IF n < Len(lh0) THEN n ELSE Len(lh0)) :
        i <= Len(lh1) /\ lh1[i] = lh0[i]

\* C20: CopyToLiftedHeap only appends to the lifted heap: every cell that
\* was there stays as it was. TruncateIfNoLiftedHeapGrowth,
\* GetLiftedHeapFromOffset and TruncateLiftedHeapTo with offset o leave
\* every cell below o as it was.
C20_LiftedHeapFrame ==
    [][/\ (last_call'.op = "CopyToLiftedHeap") =>
            KeepsBelow(lifted_heap, lifted_heap', Len(lifted_heap))
       /\ (/\ last_call'.op \in {"TruncateIfNoLiftedHeapGrowth",
                                 "GetLiftedHeapFromOffset", "TruncateLiftedHeapTo"}
           /\ last_call'.o.tag = "Con"
           /\ last_call'.o.k = "Usize") =>
            KeepsBelow(lifted_heap, lifted_heap', last_call'.o.v)]_vars

\* TruncateLiftedHeapTo has cut a collection away and left the cell of the
\* outer one below its offset.
C20_Witness ==
    /\ last_call.op = "TruncateLiftedHeapTo"
    /\ last_call.o = ConUsize(Len(OuterCells))
    /\ pc = "collected"
    /\ lifted_heap = OuterCells


\* ------------------------------------------------------------------ C24
\* Max as skip_max_list finds it, and whether the outputs are still unbound.
MaxGiven == StoreDeref(heap, regs[2])
OutputsUnbound ==
    /\ StoreDeref(heap, regs[1]) = regs[1] \/ ~IsRef(regs[1])
    /\ StoreDeref(heap, regs[4]) = regs[4]
    /\ heap[NVar] = HeapCell(NVar)
    /\ heap[XsVar] = HeapCell(XsVar)

\* C24: skip_max_list with an unbound maximum raises an instantiation error,
\* with a bound non-integer maximum a type error, and with an integer maximum
\* below -1 fails without an error; in none of these cases is the count or the
\* remainder bound.
C24_MaxErrors ==
    pc = "done" =>
        /\ IsRef(MaxGiven) =>
              error = "instantiation_error" /\ ~fail /\ OutputsUnbound
        /\ (~IsRef(MaxGiven) /\ ~IsInteger(MaxGiven)) =>
              error = "type_error" /\ ~fail /\ OutputsUnbound
        /\ (IsInteger(MaxGiven) /\ MaxGiven.v < -1) =>
              error = "none" /\ fail /\ OutputsUnbound
\* ------------------------------------------------------------------ C28
\* C28: over a proper list of N >= 1 cells without a cycle, the walk with a
\* budget B >= N, B = N included, returns ProperList(N), as the unbounded walk
\* does.
C28_BudgetAtLeastLength ==
    (/\ Walked /\ Budgeted
     /\ RootShape.end = "nil" /\ RootShape.len >= 1
     /\ max_steps >= RootShape.len)
        => search_result = ProperList(RootShape.len)
\* ------------------------------------------------------------------ C29
\* The smaller of the length l and the maximum m, l when m is -1.
MinOf(l, m) == IF m = -1 \/ l <= m THEN l ELSE m

\* skip_max_list was called with an unbound count and an integer maximum of -1
\* or more, and has returned.
SkippedWithMax ==
    /\ pc = "done" /\ error = "none"
    /\ regs[1] = HeapCell(NVar)
    /\ IsInteger(MaxGiven) /\ MaxGiven.v >= -1

\* C29: over an acyclic list of L cells, proper or ending in an unbound
\* variable, skip_max_list with an unbound count and a maximum Max >= 0 or -1
\* binds the count to min(L, Max), L when Max is -1, and the remainder to what
\* follows that many cells.
C29_CountAndRemainder ==
    (SkippedWithMax /\ RootShape.end \in {"nil", "var"})
        => LET k == MinOf(RootShape.len, MaxGiven.v)
           IN /\ ~fail
              /\ StoreDeref(heap, HeapCell(NVar)) = ConInteger(k)
              /\ StoreDeref(heap, HeapCell(XsVar))
                    = StoreDeref(heap, RefAdvance(heap, dq_atom, HeapCell(Root), k))

\* What does hold: the same for every maximum that fits an isize.
CountAndRemainderWithinIsize ==
    (SkippedWithMax /\ FitsIsize(MaxGiven.v) /\ RootShape.end \in {"nil", "var"})
        => LET k == MinOf(RootShape.len, MaxGiven.v)
           IN /\ ~fail
              /\ StoreDeref(heap, HeapCell(NVar)) = ConInteger(k)
              /\ StoreDeref(heap, HeapCell(XsVar))
                    = StoreDeref(heap, RefAdvance(heap, dq_atom, HeapCell(Root), k))
\* ------------------------------------------------------------------ C30
\* C30: over a string of L characters entered at offset n, skip_max_list with
\* an unbound count and a budget 0 < B < L - n binds the count to B and the
\* remainder to the same string B characters further on.
C30_StringCountAndPosition ==
    (/\ SkippedWithMax /\ Walked
     /\ IsString(heap[Root]) /\ ~dq_atom
     /\ 0 < max_steps
     /\ max_steps < Len(SliceFrom(heap[Root].s, heap[Root].n)))
        => /\ ~fail
           /\ StoreDeref(heap, HeapCell(NVar)) = ConInteger(max_steps)
           /\ StoreDeref(heap, HeapCell(XsVar))
                 = RefAdvance(heap, dq_atom, HeapCell(Root), max_steps)
\* ------------------------------------------------------------------ C21
\* The cells of the compound term at d: its arguments.
ArgCells(hp, d) ==
    IF d.tag = "Lis" THEN {d.h, d.h + 1}
    ELSE IF d.tag = "Str" THEN {d.h + i : i \in 1..hp[d.h].arity}
    ELSE {}

RECURSIVE Reaches(_, _, _, _)
\* The term at address a, followed through its arguments, comes to the value
\* goal; seen are the compound terms already entered.
Reaches(hp, a, goal, seen) ==
    LET d == StoreDeref(hp, a)
    IN \/ d = goal
       \/ /\ d.tag \in {"Lis", "Str"}
          /\ d \notin seen
          /\ \E c \in ArgCells(hp, d) : Reaches(hp, HeapCell(c), goal, seen \cup {d})

\* a1 is an unbound variable and a2 a compound term that contains it.
VarInCompound(hp, a1, a2) ==
    /\ IsRef(StoreDeref(hp, a1))
    /\ StoreDeref(hp, a2).tag \in {"Lis", "Str"}
    /\ \E c \in ArgCells(hp, StoreDeref(hp, a2)) :
          Reaches(hp, HeapCell(c), StoreDeref(hp, a1), {})

\* The compound term at a contains itself.
Cyclic(hp, a) ==
    /\ StoreDeref(hp, a).tag \in {"Lis", "Str"}
    /\ \E c \in ArgCells(hp, StoreDeref(hp, a)) :
          Reaches(hp, HeapCell(c), StoreDeref(hp, a), {})

\* C21: unifying an unbound variable X with a compound term that contains X
\* sets the failure flag under UnifyWithOccursCheck, binding nothing, and
\* succeeds under plain unify, which binds X to the term and so makes it cyclic.
C21_OccursCheck ==
    [][\A a1, a2 \in UnifyTerms :
         (/\ pc = "unify" /\ ~fail
          /\ VarInCompound(heap, a1, a2)
          /\ last_call'.op \in {"Unify", "UnifyWithOccursCheck"}
          /\ last_call'.a1 = a1 /\ last_call'.a2 = a2)
            => IF last_call'.op = "UnifyWithOccursCheck"
               THEN fail' /\ heap' = heap /\ trail' = trail
               ELSE /\ ~fail'
                    /\ StoreDeref(heap', a1) = StoreDeref(heap, a2)
                    /\ Cyclic(heap', a1)
                    /\ trail' = Append(trail, StoreDeref(heap, a1).h)]_vars

\* X against [a | X] with the occurs check: failure, X still unbound.
C21_Witness ==
    /\ last_call = [op |-> "UnifyWithOccursCheck", a1 |-> HeapCell(0), a2 |-> Lis(9)]
    /\ fail
    /\ heap[0] = HeapCell(0)
\* ------------------------------------------------------------------ C22
\* f(X, 1) is unified with f(2, Y) while X and Y are unbound.
UnifiesFWithF ==
    /\ pc = "unify" /\ ~fail
    /\ heap[0] = HeapCell(0) /\ heap[1] = HeapCell(1)
    /\ last_call' = [op |-> "Unify", a1 |-> Str(3), a2 |-> Str(6)]

\* C22: backtracking to the trail length saved, undoing the records above it
\* from the most recent down, leaves the heap as it was when the length was
\* saved, whatever unifications ran since; unifying f(X, 1) with f(2, Y)
\* succeeds with X = 2 and Y = 1, and backtracking makes both unbound again.
C22_BacktrackRestores ==
    [][/\ last_call'.op = "BacktrackTrail"
          => /\ heap' = saved.heap
             /\ trail' = SubSeq(trail, 1, saved.tr)
             /\ ~fail'
       /\ UnifiesFWithF
          => /\ ~fail'
             /\ StoreDeref(heap', HeapCell(0)) = ConInteger(2)
             /\ StoreDeref(heap', HeapCell(1)) = ConInteger(1)
             /\ Len(trail') = Len(trail) + 2]_vars

\* The trail length was saved with X and Y unbound, f(X, 1) was unified with
\* f(2, Y), and the machine backtracked: both are unbound again.
C22_Witness ==
    /\ last_call.op = "BacktrackTrail"
    /\ regs = <<Str(3), Str(6)>>
    /\ saved # NotSaved /\ saved.heap = UnifyHeap
    /\ heap = UnifyHeap
    /\ trail = <<>>
\* ------------------------------------------------------------------ C23
\* The attributes of the attributed variable at v, in order.
AttrsOf(hp, v) == ListToSeq(hp, HeapCell(v + 1))
AttrsEnd(hp, v) == AttrListEnd(hp, v + 1, HLen(hp)) # -1

\* The cells in which two heaps of the same size differ.
Changed(hp0, hp1) == {i \in DOMAIN hp0 : hp0[i] # hp1[i]}

\* RedoAttrVarBinding runs on an attributed variable.
RedoesBinding ==
    /\ pc = "attr"
    /\ last_call'.op = "RedoAttrVarBinding"
    /\ last_call'.var.tag = "AttrVar"
    /\ last_call'.var = StoreDeref(heap, regs'[1])
    /\ last_call'.value = StoreDeref(heap, regs'[2])

\* C23: RedoAttrVarBinding of an attributed variable V to another attributed
\* variable W makes V's cell point to W, leaves W with its former attributes
\* followed by V's, and pushes exactly one trail record, for the link cell it
\* overwrote; bound to a value that is no attributed variable, only V's cell
\* changes and nothing is trailed.
C23_RedoAttrVarBinding ==
    [][RedoesBinding =>
         LET v == last_call'.var
             w == last_call'.value
         IN IF w.tag = "AttrVar"
            THEN (v # w /\ AttrsEnd(heap, v.h) /\ AttrsEnd(heap, w.h))
                   => /\ heap'[v.h] = w
                      /\ AttrsEnd(heap', w.h)
                      /\ AttrsOf(heap', w.h) = AttrsOf(heap, w.h) \o AttrsOf(heap, v.h)
                      /\ Len(trail') = Len(trail) + 1
                      /\ SubSeq(trail', 1, Len(trail)) = trail
                      /\ Changed(heap, heap') = {v.h, trail'[Len(trail')]}
                      /\ heap'[trail'[Len(trail')]] = HeapCell(v.h + 1)
            ELSE /\ heap' = [heap EXCEPT ![v.h] = w]
                 /\ trail' = trail]_vars

\* V with two attributes was bound to W with two: W has all four, W's first.
C23_Witness ==
    /\ last_call = [op |-> "RedoAttrVarBinding", var |-> AttrVar(VAttr),
                    value |-> AttrVar(WAttr)]
    /\ heap[VAttr] = AttrVar(WAttr)
    /\ AttrsOf(heap, WAttr) = <<ConAtom("b"), ConAtom("b"), ConAtom("a"), ConAtom("a")>>
    /\ Len(trail) = 1
\* ------------------------------------------------------------------ C25
\* SetInput or SetOutput runs on the address last_call' records.
SetsStream ==
    /\ pc = "stream"
    /\ last_call'.op \in {"SetInput", "SetOutput"}
    /\ last_call'.addr = StoreDeref(heap, regs'[1])

\* The stream an address names, directly or as a registered alias.
NamedStream(addr) ==
    IF addr.tag = "StreamAddr" THEN addr.stream ELSE StreamAliases[addr.v]

NamesStream(addr) ==
    \/ addr.tag = "StreamAddr"
    \/ addr.tag = "Con" /\ addr.k = "Atom" /\ addr.v \in StreamAliasNames

StreamsUnchanged ==
    UNCHANGED <<current_input_stream, current_output_stream>>

\* C25: SetInput on an output stream and SetOutput on an input stream raise a
\* permission error, an atom that is no registered alias an existence error,
\* any other value that is no stream a domain error; an error leaves both
\* current streams as they were, and success changes only the one addressed.
C25_SetStreamErrors ==
    [][SetsStream =>
         LET addr == last_call'.addr
             input == last_call'.op = "SetInput"
         IN IF NamesStream(addr)
            THEN IF (input /\ NamedStream(addr).output)
                    \/ (~input /\ NamedStream(addr).input)
                 THEN error' = "permission_error" /\ StreamsUnchanged
                 ELSE /\ error' = "none"
                      /\ IF input
                         THEN /\ current_input_stream' = NamedStream(addr)
                              /\ UNCHANGED current_output_stream
                         ELSE /\ current_output_stream' = NamedStream(addr)
                              /\ UNCHANGED current_input_stream
            ELSE IF addr.tag = "Con" /\ addr.k = "Atom"
            THEN error' = "existence_error" /\ StreamsUnchanged
            ELSE error' = "domain_error" /\ StreamsUnchanged]_vars

\* SetOutput was given the input file after current input had been moved to
\* it: a permission error, and both current streams are as before.
C25_Witness ==
    /\ last_call = [op |-> "SetOutput",
                    addr |-> StreamAddr(Stream("in.txt", TRUE, FALSE))]
    /\ error = "permission_error"
    /\ current_input_stream = Stream("in.txt", TRUE, FALSE)
    /\ current_output_stream = Stream("out.txt", FALSE, TRUE)
\* ------------------------------------------------------------------ C26
\* AtomCodes or CharCode has run on an unbound first argument and codes that
\* are all integers.
RanOnIntegerCodes ==
    /\ last_call.op \in {"AtomCodes", "CharCode"}
    /\ IsRef(last_call.a1)
    /\ IF last_call.op = "CharCode" THEN IsInteger(regs[2])
       ELSE /\ TryFromList(heap, HeapCell(2)).error = "none"
            /\ \A i \in 1..Len(TryFromList(heap, HeapCell(2)).addrs) :
                  IsInteger(TryFromList(heap, HeapCell(2)).addrs[i])

\* C26: AtomCodes and CharCode, given an unbound atom or character and codes
\* that are integers but no Unicode scalar values, end in a failure or in a
\* representation error, never in an abort.
C26_NoAbortOnBadCodes ==
    RanOnIntegerCodes
        => /\ pc # "panic"
           /\ error \in {"none", "representation_error"}

\* The built-in of the last call, in the inference-limit machine.
LimitCall(op) == pc = "limits" /\ pc' = "limits" /\ last_call'.op = op
\* The limits of the policy without the most recent one.
Popped(cp) == SubSeq(cp.limits, 1, Len(cp.limits) - 1)
\* The most recent limit is the one added for the barrier bp.
PairedWith(cp, bp) == cp.limits # <<>> /\ cp.limits[Len(cp.limits)].bp = bp

\* C27: the inference-limit policy is installed by InstallInferenceCounter and
\* stays installed while a limit is registered; RemoveCallPolicyCheck(bp) puts
\* the default policy back exactly when no limit remains and bp is the current
\* b, and leaves the policy alone otherwise; RemoveInferenceCounter(bp) removes
\* the limit added for the barrier bp and returns the count of the policy.
C27_InferenceLimitPolicy ==
    [][/\ last_call'.op = "InstallInferenceCounter" => call_policy'.kind = "CWIL"
       /\ call_policy.limits # <<>> =>
              call_policy.kind = "CWIL" /\ call_policy'.kind = "CWIL"
       /\ call_policy.kind = "Default" /\ call_policy'.kind = "CWIL" =>
              last_call'.op = "InstallInferenceCounter"
       /\ LimitCall("RemoveCallPolicyCheck") =>
              IF call_policy.limits = <<>> /\ last_call'.a1.v = b_reg
              THEN call_policy' = DefaultCallPolicy
              ELSE call_policy' = call_policy
       /\ LimitCall("RemoveInferenceCounter") =>
              /\ call_policy'.kind = "CWIL"
              /\ call_policy'.count = call_policy.count
              /\ heap'[0] = ConInteger(call_policy.count)
              /\ ~fail'
              /\ call_policy'.limits =
                     IF PairedWith(call_policy, last_call'.a1.v)
                     THEN Popped(call_policy)
                     ELSE call_policy.limits]_vars

\* A limit was added and removed, inferences were counted, and the default
\* policy is back.
C27_Witness ==
    /\ pc = "limits"
    /\ last_call.op = "RemoveCallPolicyCheck"
    /\ call_policy = DefaultCallPolicy
    /\ heap[0] = ConInteger(MaxInferences)

\* The hare one step further: past a list cell to its tail cell, past one
\* character of a string.
NextHare(hp, hare) ==
    LET d == StoreDeref(hp, hare)
    IN IF d.tag = "Lis" THEN HeapCell(d.h + 1)
       ELSE IF IsString(d) THEN ConString(d.n + Head(d.s), d.s)
       ELSE IF d.tag = "PStrLocation"
       THEN PStrLocation(d.h, d.n + CharAt(hp[d.h].s, d.n))
       ELSE hare
RECURSIVE HareAfter(_, _, _)
\* The hare k steps from the address a.
HareAfter(hp, a, k) == IF k = 0 THEN a ELSE HareAfter(hp, NextHare(hp, a), k - 1)
PowerOfTwo(p) == \E k \in 1..StepCap : p = 2 ^ k
\* The walker took a step.
BrentStepped == brent_st'.steps = brent_st.steps + 1
\* What every step keeps, whatever it concludes.
BrentShape ==
    /\ PowerOfTwo(brent_st'.power)
    /\ brent_st'.power >= 4 =>
          brent_st'.tortoise =
             HareAfter(heap, StoreDeref(heap, regs[3]), brent_st'.power \div 2)
    /\ brent_st'.tortoise # brent_st.tortoise =>
          /\ brent_st'.steps = brent_st.power
          /\ brent_st'.power = 2 * brent_st.power
          /\ brent_st'.tortoise = brent_st'.hare
    /\ brent_st'.tortoise = brent_st.tortoise => brent_st'.power = brent_st.power

\* C31: after every step of a walk the power is a power of two, at least 2,
\* and the steps are fewer than the power; once the power is 4 or more the
\* tortoise is where the hare was at step power/2; the tortoise moves only when
\* the steps equal the power, and the power doubles then.
C31_Original ==
    [][BrentStepped => BrentShape /\ brent_st'.steps < brent_st'.power]_vars

\* C31 as the walker has it: the step that finds the hare on the tortoise
\* concludes before the power is looked at, so the steps may equal the power
\* there; after every other step they are fewer.
C31_BrentState ==
    [][BrentStepped =>
          /\ BrentShape
          /\ brent_st'.steps <= brent_st'.power
          /\ brent_st'.steps = brent_st'.power =>
                /\ brent_st'.tortoise = brent_st'.hare
                /\ search_result' = NotList]_vars

\* The tortoise has moved twice and the walk goes on.
C31_Witness ==
    /\ pc \in {"detect_cycles", "detect_cycles_with_max"}
    /\ brent_st.power = 8
    /\ brent_st.steps > 4

\* GetSCCCleaner ran in the step, to the end.
GotCleaner == last_call'.op = "GetSCCCleaner" /\ pc' = "cleaners"
InstalledCleaner == last_call'.op = "InstallSCCCleaner"
TopContPt == cont_pts[Len(cont_pts)]
PoppedContPts == SubSeq(cont_pts, 1, Len(cont_pts) - 1)
\* GetSCCCleaner hands out the top entry, and only past its cut-off.
HandsOutTop ==
    GotCleaner /\ ~fail' =>
       /\ cont_pts # <<>>
       /\ heap'[0] = TopContPt[1]
       /\ PreludeB(stack, b_reg) <= TopContPt[2]
       /\ block' = TopContPt[3]
       /\ cont_pts' = PoppedContPts
\* InstallSCCCleaner adds an entry for the present b and block on top.
InstallsOnTop ==
    InstalledCleaner =>
       /\ Len(cont_pts') = Len(cont_pts) + 1
       /\ SubSeq(cont_pts', 1, Len(cont_pts)) = cont_pts
       /\ cont_pts'[Len(cont_pts')][2] = b_reg
       /\ cont_pts'[Len(cont_pts')][3] = block

\* C32: cleaners are retrieved last-in first-out. The tracking stack holds the
\* cleaners installed and not yet retrieved, the latest on top: an installation
\* adds its entry on top of the earlier ones, an entry leaves only by being
\* handed out by GetSCCCleaner, which hands out the top one, only when the
\* choice point before the current one is at or below the b of the entry, and
\* puts back the block of before the installation.
C32_CleanersLastInFirstOut ==
    [][/\ HandsOutTop
       /\ InstallsOnTop
       /\ ~InstalledCleaner /\ ~(GotCleaner /\ ~fail') => cont_pts' = cont_pts]_vars

\* C33: a GetSCCCleaner that ends with the failure flag set leaves the tracking
\* stack and the block as they were.
C33_FailedGetKeepsStack ==
    [][GotCleaner /\ fail' => cont_pts' = cont_pts /\ block' = block]_vars

\* Where a chunk starts: the instruction after the code position it holds.
StartOf(hp, chunk) == ToLocalCodePtr(hp[StoreDeref(hp, chunk).h + 1]) + 1
RECURSIVE Returns(_, _, _, _)
\* The code positions control passes through, from p in the environment e,
\* when the running code returns n times: each return goes to the continuation
\* of the current frame and makes the frame before it the environment.
Returns(frames, e, p, n) ==
    IF n = 0 THEN <<p>>
    ELSE <<p>> \o Returns(frames, frames[e].e, frames[e].cp, n - 1)
RECURSIVE EnvAfter(_, _, _)
\* The environment after n returns.
EnvAfter(frames, e, n) == IF n = 0 THEN e ELSE EnvAfter(frames, frames[e].e, n - 1)

\* C34: CallContinuation on the chunks c1 .. cn moves control to the start of
\* c1, each chunk returns into the start of the next, and the last returns to
\* the continuation of the caller, in the caller's environment: cp on a last
\* call, the instruction after the call otherwise. With no chunk control goes
\* to that continuation at once.
C34_ChunksRunInListOrder ==
    [][last_call'.op = "CallContinuation" =>
          LET cs == last_call'.chunks
              k == Len(cs)
              continuation == IF last_call'.last_call THEN cp_reg ELSE p_reg + 1
          IN /\ Returns(and_frames', e_reg', p_reg', k) =
                   [j \in 1..(k + 1) |->
                       IF j <= k THEN StartOf(heap, cs[j]) ELSE continuation]
             /\ EnvAfter(and_frames', e_reg', k) = e_reg]_vars

\* Two chunks that start at different positions were called, not as a last
\* call.
C34_Witness ==
    /\ last_call.op = "CallContinuation"
    /\ ~last_call.last_call
    /\ Len(last_call.chunks) = 2
    /\ StartOf(heap, last_call.chunks[1]) # StartOf(heap, last_call.chunks[2])
    /\ p_reg = StartOf(heap, last_call.chunks[1])

\* A ball has been set and not erased since.
BallSet == stored[BallKey] # NotStored

\* C35: while no ball is set, after EraseBall and until the next SetBall, every
\* GetBall fails and adds nothing to the heap but the variable its caller
\* passes; GetBall leaves the ball as it is, so with a ball set every GetBall
\* on an unbound variable succeeds, and of two in a row the second yields a
\* copy of the same shape as the first at another address.
C35_GetBallKeepsBall ==
    [][last_call'.op = "GetBall" =>
          /\ ball' = ball
          /\ ~BallSet => fail' /\ heap' \in {heap, WithFreshVar(heap)}
          /\ BallSet /\ IsRef(last_call'.out) =>
                /\ ~fail'
                /\ TermShape(heap', HeapCell(last_call'.h)) = stored[BallKey].shape
          /\ BallSet /\ IsRef(last_call'.out) /\ last_call.op = "GetBall" /\ ~fail =>
                /\ last_call'.h # last_call.h
                /\ TermShape(heap', HeapCell(last_call'.h)) =
                      TermShape(heap', HeapCell(last_call.h))]_vars

\* The list [X, a | X] set as the ball has been fetched twice: two copies of
\* it stand on the heap above the original.
C35_Witness ==
    /\ last_call.op = "GetBall"
    /\ ~fail
    /\ BallSet
    /\ stored[BallKey].src = Lis(1)
    /\ \E a \in DOMAIN heap :
         /\ a >= HLen(SnapHeap)
         /\ a < last_call.h - 1
         /\ heap[a].tag = "Lis"
         /\ TermShape(heap, HeapCell(a)) = TermShape(heap, HeapCell(last_call.h))

RECURSIVE ListCells(_, _, _)
\* The addresses of the cells of the list at a, in order.
ListCells(hp, a, fuel) ==
    LET d == StoreDeref(hp, a)
    IN IF d.tag = "Lis" /\ fuel > 0
       THEN <<d.h>> \o ListCells(hp, HeapCell(d.h + 1), fuel - 1)
       ELSE <<>>
\* One record was pushed on the trail, for the link that cell held: the cell
\* and the list the link led to, or the cell the link pointed to.
TrailedLink(cell) ==
    /\ Len(trail') = Len(trail) + 1
    /\ SubSeq(trail', 1, Len(trail)) = trail
    /\ LET rec == trail'[Len(trail')]
       IN \/ rec = AttrVarListLink(cell, StoreDeref(heap, heap[cell]).h)
          \/ heap[cell].tag = "HeapCell" /\ rec = AttrVarHeapLink(heap[cell].h)
\* The link at cell was overwritten so that the list from a lost the element
\* at position k and nothing else.
Unlinked(a, cell, k) ==
    LET cells == ListCells(heap, a, HLen(heap))
    IN /\ ListCells(heap', a, HLen(heap)) =
             SubSeq(cells, 1, k - 1) \o SubSeq(cells, k + 1, Len(cells))
       /\ Changed(heap, heap') = {cell}
       /\ k = Len(cells) => heap'[cell] = HeapCell(cell)
       /\ TrailedLink(cell)

\* C36: DeleteHeadAttribute unlinks the first attribute of the variable and
\* DeleteAttribute the attribute after the cell given: the other attributes
\* stay, in their order; if the attribute unlinked was the last, the list ends
\* in an unbound cell that refers to itself; one record is pushed on the trail,
\* for the link overwritten. With no attribute after the cell given,
\* DeleteAttribute changes neither the heap nor the trail.
C36_UnlinkAttribute ==
    [][/\ (last_call'.op = "DeleteHeadAttribute" /\ pc' = "attr") =>
            Unlinked(HeapCell(last_call'.var.h + 1), last_call'.var.h + 1, 1)
       /\ last_call'.op = "DeleteAttribute" =>
            LET ls0 == last_call'.ls0
            IN IF ls0.tag = "Lis" /\ Len(ListCells(heap, ls0, HLen(heap))) >= 2
               THEN Unlinked(ls0, ls0.h + 1, 2)
               ELSE heap' = heap /\ trail' = trail]_vars

\* The last attribute of W, reached through the link from the list of W into
\* that of V, was unlinked after another: W's list ends in the cell itself.
C36_Witness ==
    /\ last_call.op = "DeleteAttribute"
    /\ Len(trail) = 2
    /\ trail[2].kind = "AttrVarHeapLink"
    /\ heap[last_call.ls0.h + 1] = HeapCell(last_call.ls0.h + 1)

\* ------------------------------------------------------------------ recorded offsets
FetchedWith(op) == last_call'.op = op /\ global_variables[last_call'.key] # NoEntry

\* The fetch found the key without offset, or with one.
FoundBare == global_variables[last_call'.key].offset = -1
FoundOffset == global_variables[last_call'.key].offset

\* The second argument and the cell at h are one term after the call.
OutIsAt(h) == StoreDeref(heap', last_call'.out) = StoreDeref(heap', HeapCell(h))

\* The copy of the key's ball begins at the heap top the call found and ends
\* the heap.
CopiedAtTop ==
    /\ HLen(heap') = last_call'.h + Len(global_variables[last_call'.key].ball.stub)
    /\ ~fail'
    /\ OutIsAt(last_call'.h)

\* The call grew the heap by nothing but the caller's own variables.
NoCopy == HLen(heap') = last_call'.h

\* The third argument does not unify with the recorded offset.
OffsetRefused ==
    /\ last_call'.op = "FetchGlobalVarWithOffset"
    /\ ~IsRef(last_call'.offset)
    /\ last_call'.offset # ConUsize(FoundOffset)

\* C37 as stated: for a key stored without an offset, the first
\* FetchGlobalVarWithOffset copies the ball at the heap top h and records h;
\* every later FetchGlobalVar or FetchGlobalVarWithOffset on the key, until it
\* is stored or reset again, unifies its second argument with address h and
\* copies nothing; FetchGlobalVar on a key without offset records none and
\* copies anew each time.
C37_Original ==
    [][/\ (FetchedWith("FetchGlobalVarWithOffset") /\ FoundBare) =>
            /\ CopiedAtTop
            /\ global_variables' =
                 [global_variables EXCEPT ![last_call'.key].offset = last_call'.h]
       /\ ((FetchedWith("FetchGlobalVar") \/ FetchedWith("FetchGlobalVarWithOffset"))
             /\ ~FoundBare) =>
            /\ NoCopy
            /\ ~fail'
            /\ OutIsAt(FoundOffset)
            /\ global_variables' = global_variables
       /\ (FetchedWith("FetchGlobalVar") /\ FoundBare) =>
            /\ CopiedAtTop
            /\ global_variables' = global_variables]_vars

\* C37: as above, but a later FetchGlobalVarWithOffset unifies its second
\* argument with address h only when its third argument unifies with the
\* integer h; when it does not, the call fails with its second argument
\* unbound.
C37_RecordedOffset ==
    [][/\ (FetchedWith("FetchGlobalVarWithOffset") /\ FoundBare) =>
            /\ CopiedAtTop
            /\ global_variables' =
                 [global_variables EXCEPT ![last_call'.key].offset = last_call'.h]
       /\ ((FetchedWith("FetchGlobalVar") \/ FetchedWith("FetchGlobalVarWithOffset"))
             /\ ~FoundBare) =>
            /\ NoCopy
            /\ global_variables' = global_variables
            /\ IF OffsetRefused
               THEN fail' /\ heap'[last_call'.out.h] = last_call'.out
               ELSE ~fail' /\ OutIsAt(FoundOffset)
       /\ (FetchedWith("FetchGlobalVar") /\ FoundBare) =>
            /\ CopiedAtTop
            /\ global_variables' = global_variables]_vars

\* A key stored without offset has been fetched with offset, which recorded
\* h, and a later FetchGlobalVar has unified its argument with address h
\* while the heap holds cells above the copy.
C37_Witness ==
    /\ last_call.op = "FetchGlobalVar"
    /\ ~fail
    /\ global_variables[last_call.key] # NoEntry
    /\ global_variables[last_call.key].offset # -1
    /\ global_variables[last_call.key].offset < last_call.h - 1
    /\ global_variables[last_call.key].offset > HLen(SnapHeap) + MaxPad
    /\ stored[last_call.key] # NotStored
    /\ StoreDeref(heap, last_call.out) =
         StoreDeref(heap, HeapCell(global_variables[last_call.key].offset))
    /\ \E k \in Keys : global_variables[k] # NoEntry /\ global_variables[k].offset = -1

\* ------------------------------------------------------------------ several unifications
SeveralOps ==
    {"FinalizeSkipMaxList", "CreatePartialString", "LookupDBRef", "LookupOpDBRef",
     "NextEP", "FetchGlobalVarWithOffset", "GetLiftedHeapFromOffsetDiff"}

\* C38: in every built-in that makes more than one unification, the first
\* unification that fails is the last one attempted: the store and the flag
\* are left as that unification left them.
C38_NoUnificationAfterFailure ==
    [][last_call'.op \in SeveralOps =>
         \A i \in 1..Len(last_call'.tried) :
             last_call'.tried[i].fail =>
                 /\ i = Len(last_call'.tried)
                 /\ heap' = last_call'.tried[i].heap
                 /\ fail']_vars

\* ------------------------------------------------------------------ enumerations
\* The references returned so far are the first entries of the expected
\* ones, in their order; all of them once the enumeration is over.
ListedAre(expected, same(_, _)) ==
    /\ Len(listed.refs) <= Len(expected)
    /\ \A i \in 1..Len(listed.refs) : same(listed.refs[i], expected[i])
    /\ pc = "listed" => Len(listed.refs) = Len(expected)

SameOp(ref, e) ==
    /\ ref.kind = "Op"
    /\ ref.name = e.name
    /\ ref.priority = e.prec
    /\ ref.spec = e.spec

SamePred(ref, e) ==
    /\ ref.kind = "NamedPred"
    /\ ref.name = e.name
    /\ ref.arity = e.arity

\* C39: the references an operator enumeration returns are, in key order,
\* the operators of priority other than 0 as they were when the enumeration
\* began with an unbound argument, and the step after the last of them
\* fails: operators declared or taken away meanwhile change neither the
\* entries returned nor their number.
C39_OperatorSnapshot ==
    (pc \in {"listing", "listed"} /\ listed.begun) =>
        ListedAre(InKeyOrder({e \in listed.from : e.prec # 0}, OpKeyOf), SameOp)

\* An enumeration has returned two operators and ended, while one of them
\* was taken away and another operator was declared.
C39_Witness ==
    /\ pc = "listed"
    /\ Len(listed.refs) = 2
    /\ \E e \in listed.from : e.prec # 0 /\ e \notin op_dir
    /\ \E e \in op_dir : e.prec # 0 /\ e \notin listed.from

\* C40: with the code directory unchanged, the references a predicate
\* enumeration returns are, in ascending (name, arity) order, the entries
\* that are neither of module builtins nor named with a leading $, each
\* once, and the step after the last of them fails.
C40_EnumeratesEveryPredicate ==
    (pc \in {"listing", "listed"} /\ listed.begun) =>
        ListedAre(SelectSeq(code_dir,
                            LAMBDA e : ~is_builtin_predicate(e.name, e.module)),
                  SamePred)

====
